---- MODULE Spec2Model ----
(***************************************************************************)
(* Art-detective: the listing fetcher (fetchListingHtml, fetchWithTimeout) *)
(* and the evidence extractor / confidence scorer (buildSnapshotFromUrl)   *)
(* of the snapshot module, as a state machine of one buildSnapshotFromUrl  *)
(* call against a nondeterministic network.                                *)
(*                                                                         *)
(* One action is one turn of the JavaScript event loop: the code that runs *)
(* between two awaits.  A page is modelled by what the code's regular      *)
(* expressions can see of it: the phrases that occur in it as whole words, *)
(* the price its price patterns find, and the image URLs it carries.       *)
(* JavaScript numbers are IEEE-754 doubles: the scoring arithmetic is      *)
(* modelled bit-exactly on 64-bit fixed-point integers held in four        *)
(* 16-bit limbs.                                                           *)
(***************************************************************************)
EXTENDS Integers, Sequences, FiniteSets, TLC

VARIABLES
    url,            \* the argument of buildSnapshotFromUrl: [host, path]
    pc,             \* where the call stands
    requests,       \* every outbound request issued so far, in order, with its fate
    timerArmed,     \* fetchWithTimeout's setTimeout is armed
    elapsed,        \* ticks since the latest outbound request was issued
    raw,            \* the text fetchListingHtml returned
    rawVia,         \* which response the returned text was read from
    result,         \* the outcome of the call
    listingsById,   \* the listing store (store.ts)
    bucketChecks,   \* the argument of a computeBucketScore call on its own
    bucketScore,    \* what that call returned
    inferTitle,     \* the argument of an inferArtistName call on its own
    inferredArtist, \* what that call returned
    httpStatus,     \* the status of the snapshot route's response to the call
    calls,          \* the snapshot requests a running server has accepted, in order
    placeholderCache,   \* snapshotPlaceholder's module-level Map
    placeholderEnabled, \* isSnapshotPlaceholderEnabled(), fixed by the environment
    resets,         \* history: how many resetSnapshotPlaceholder calls have returned
    watchlistByUser,        \* store.ts: the watchlist of the one user modelled
    deletedWatchlistByUser, \* store.ts: that user's pending-undo records
    clock,          \* Date.now(), in milliseconds since the store started
    clockSteps,     \* how often the clock has advanced
    undoIssued,     \* how many undo tokens randomUUID has produced
    lastCall,       \* the watchlist call that returned last, with its answer
    refreshToUserId,    \* store.ts: the refresh tokens that can be redeemed
    refreshIssued,  \* how many refresh tokens issueRefreshToken has produced
    authPending,    \* auth requests received and not yet handled
    authLog,        \* history: the auth requests handled, in order, with their answers
    session,        \* the browser's localStorage session
    apiCalls,       \* the client's apiRequest calls
    expiredAccess   \* the access tokens the server no longer accepts

\* the state of a server handling several requests
server == <<calls, placeholderCache, placeholderEnabled, resets>>

\* the watchlist of the store and its clock
watch == <<watchlistByUser, deletedWatchlistByUser, clock, clockSteps, undoIssued, lastCall>>

\* the refresh tokens of the store, and the auth routes' requests
auth == <<refreshToUserId, refreshIssued, authPending, authLog>>

\* the browser side of a session
client == <<session, apiCalls, expiredAccess>>

\* the account features: watchlist, tokens, client session
account == <<watch, auth, client>>

\* the variables a buildSnapshotFromUrl call leaves alone
aside == <<inferTitle, inferredArtist, httpStatus, server, account>>

vars == <<url, pc, requests, timerArmed, elapsed, raw, rawVia, result,
          listingsById, bucketChecks, bucketScore, aside>>

(***************************************************************************)
(* Bounds of the model.                                                    *)
(***************************************************************************)
\* one tick of the model's clock, in milliseconds
TickMs == 5000
\* the clock stops counting here
MaxTicks == 5

FETCH_TIMEOUT_MS == 15000

(***************************************************************************)
(* IEEE-754 double arithmetic on non-negative values below 2^7, held as    *)
(* integers in units of 2^-56, four little-endian limbs of 16 bits.        *)
(***************************************************************************)
LimbBase == 2^16

Pow2(n) == 2^n

BigZero == <<0, 0, 0, 0>>

BigNorm(X) ==
    LET s2 == X[2] + (X[1] \div LimbBase)
        s3 == X[3] + (s2 \div LimbBase)
        s4 == X[4] + (s3 \div LimbBase)
    IN  <<X[1] % LimbBase, s2 % LimbBase, s3 % LimbBase, s4>>

BigAdd(X, Y) == BigNorm(<<X[1] + Y[1], X[2] + Y[2], X[3] + Y[3], X[4] + Y[4]>>)

BigMulSmall(X, n) == BigNorm(<<X[1] * n, X[2] * n, X[3] * n, X[4] * n>>)

\* quotient and remainder of X by a small divisor d
BigDivSmall(X, d) ==
    LET t4 == X[4]
        t3 == (t4 % d) * LimbBase + X[3]
        t2 == (t3 % d) * LimbBase + X[2]
        t1 == (t2 % d) * LimbBase + X[1]
    IN  [q |-> <<t1 \div d, t2 \div d, t3 \div d, t4 \div d>>, r |-> t1 % d]

\* the number of bits of a limb
RECURSIVE LimbBits(_)
LimbBits(l) == IF l = 0 THEN 0 ELSE 1 + LimbBits(l \div 2)

BitLen(X) ==
    IF X[4] # 0 THEN 48 + LimbBits(X[4])
    ELSE IF X[3] # 0 THEN 32 + LimbBits(X[3])
    ELSE IF X[2] # 0 THEN 16 + LimbBits(X[2])
    ELSE LimbBits(X[1])

\* round to nearest, ties to even, at 53 significant bits; sticky: nonzero
\* bits below X were already dropped
Round53(X, sticky) ==
    LET n == BitLen(X) IN
    IF n <= 53 THEN X
    ELSE LET k == n - 53
             m == Pow2(k)
             r == X[1] % m
             half == m \div 2
             odd == (X[1] \div m) % 2 = 1
             down == <<X[1] - r, X[2], X[3], X[4]>>
             up == r > half \/ (r = half /\ (sticky \/ odd))
         IN  IF up THEN BigAdd(down, <<m, 0, 0, 0>>) ELSE down

\* the double a / b  (0 <= a < 64, b > 0, a = 0 or a / b >= 1/16)
DoubleDiv(a, b) ==
    IF a = 0 THEN BigZero
    ELSE LET d == BigDivSmall(<<0, 0, 0, a * Pow2(10)>>, b)
         IN  BigDivSmall(Round53(d.q, d.r # 0), 4).q

\* the double x * n, n a small integer
DoubleMulInt(x, n) == Round53(BigMulSmall(x, n), FALSE)

\* the double x + y
DoubleAdd(x, y) == Round53(BigAdd(x, y), FALSE)

\* Math.round: the nearest integer, ties toward +Infinity
MathRound(x) == BigAdd(x, <<0, 0, 0, Pow2(7)>>)[4] \div Pow2(8)

(***************************************************************************)
(* URLs.  A host is its sequence of dot-separated labels, lower-cased; a   *)
(* path (with its query string) is the sequence of its pieces between dots.*)
(***************************************************************************)
Hosts ==
    { <<"www", "ebay", "co", "uk">>,
      <<"www", "artsy", "net">>,
      <<"notebay", "com">> }

Paths == { <<"/itm/1">>, <<"/find/ebay", "html?q=1">> }

Urls == [host : Hosts, path : Paths]

\* the label ends with the word: a table over the labels of Hosts and Paths
LabelEndsWith(label, word) ==
    label = word \/ (word = "ebay" /\ label \in {"notebay", "/find/ebay"})

\* faulty variant: the unanchored /ebay\./i of line 336 used for the host test
isEbayUrl_Unanchored(u) ==
    \E i \in 1..(Len(u.host) - 1) : LabelEndsWith(u.host[i], "ebay")

\* /(?:^|\.)ebay\./i on the hostname: some label is exactly "ebay" and a dot
\* follows it
isEbayUrl(u) ==
    \E i \in 1..(Len(u.host) - 1) : u.host[i] = "ebay"

(***************************************************************************)
(* Pages.  phrases: the phrases that occur in the text as whole words;     *)
(* price: the number the dollar-sign pattern finds (0 - 1: none);          *)
(* images: the image URLs of the page body, in order of appearance;        *)
(* ld: the application/ld+json blocks, which come first in a page of the   *)
(* model; ogTitle, ogImage, currencyMeta: the content of the meta tags;    *)
(* titleTag: the text of the <title> element; jsonPrice: the number of a   *)
(* "price": field of the page body; dimensions: what the dimension pattern *)
(* finds.  Numbers are in hundredths.  An absent title is the empty        *)
(* sequence, an absent URL or currency the empty string.                   *)
(***************************************************************************)
NoPrice == 0 - 1

\* a page with nothing but its body text
Plain ==
    [ld |-> <<>>, ogTitle |-> <<>>, ogImage |-> "", currencyMeta |-> "",
     titleTag |-> <<>>, jsonPrice |-> NoPrice, dimensions |-> <<>>]

\* lower-casing of the phrases a page of the model can hold
ToLower(p) ==
    CASE p = "Certificate of Authenticity" -> "certificate of authenticity"
      [] p = "Hand-Signed" -> "hand-signed"
      [] p = "Robot Check" -> "robot check"
      [] p = "CAPTCHA" -> "captcha"
      [] OTHER -> p

\* a case-insensitive \b(alt1|alt2|...)\b test of a text
Matches(text, alternatives) ==
    \E p \in text.phrases : ToLower(p) \in alternatives

BotBlockPhrases ==
    {"robot check", "access denied", "to continue, please verify", "security measure", "captcha"}

\* faulty variant: the pattern without its i flag
isLikelyBotBlock_CaseSensitive(content) == content.phrases \cap BotBlockPhrases # {}

isLikelyBotBlock(content) == Matches(content, BotBlockPhrases)

\* the evidence phrases of the model's listing pages, one per keyword set
EvidenceVocabulary ==
    { "Certificate of Authenticity", "Hand-Signed", "numbered", "provenance",
      "released", "market", "returns accepted", "insured",
      "money back guarantee", "top rated seller", "invoice" }

ImageLists == { <<>>, <<"a.jpg">>, <<"a.jpg", "b.png">>, <<"a.jpg", "a.jpg">> }

\* every combination of evidence phrases, price and images
ListingPages ==
    { page @@ Plain :
        page \in [phrases : SUBSET EvidenceVocabulary, price : {NoPrice, 120},
                  images : ImageLists] }

EmptyPage == [phrases |-> {}, price |-> NoPrice, images |-> <<>>] @@ Plain

\* the listing pages the network of the fetch model serves: the empty text, a
\* page with every kind of evidence, a signed work with a certificate and no
\* edition, and a sparse page
SamplePages ==
    { page @@ Plain : page \in
        { [phrases |-> {}, price |-> NoPrice, images |-> <<>>],
          [phrases |-> EvidenceVocabulary, price |-> 120, images |-> <<"a.jpg", "b.png">>],
          [phrases |-> {"Hand-Signed", "Certificate of Authenticity"}, price |-> 120,
           images |-> <<"a.jpg">>],
          [phrases |-> {"Hand-Signed", "returns accepted", "insured", "money back guarantee"},
           price |-> NoPrice, images |-> <<"a.jpg", "b.png">>] } }

\* interstitial pages: each bot-block phrase alone, two of them in another
\* case, and one inside an otherwise complete listing page
BotPages ==
    { [phrases |-> {p}, price |-> NoPrice, images |-> <<>>] @@ Plain :
        p \in BotBlockPhrases \cup {"Robot Check", "CAPTCHA"} }
    \cup { [phrases |-> EvidenceVocabulary \cup {"captcha"}, price |-> 120,
            images |-> <<"a.jpg", "b.png">>] @@ Plain }

Bodies == SamplePages \cup BotPages

NoBody == [kind |-> "none"]

Statuses == {200, 404, 410, 503}

\* Response.ok
Ok(status) == status >= 200 /\ status <= 299

(***************************************************************************)
(* Errors.  The code throws plain Error objects told apart by message:     *)
(*   Timeout     the AbortError of the aborted fetch                       *)
(*   HttpStatus  "Could not fetch listing (<status>)"                      *)
(*   BotBlocked  "Listing page appears bot-protected."                     *)
(*   Network     the rejection of fetch() or of response.text() itself     *)
(***************************************************************************)
Timeout == [kind |-> "Timeout", code |-> 0]
HttpStatus(code) == [kind |-> "HttpStatus", code |-> code]
BotBlocked == [kind |-> "BotBlocked", code |-> 0]
Network == [kind |-> "Network", code |-> 0]

\* the fate of an attempt that is not over, and of one that gave its text
NoOutcome == [kind |-> "none", code |-> 0]
Delivered == [kind |-> "ok", code |-> 0]

Pending == [kind |-> "pending"]
Failure(error) == [kind |-> "failure", error |-> error]

\* a request as issued: state "pending" (no response yet), "streaming" (status
\* and headers received, body outstanding) or "settled"
NewRequest(via, scheme, u, userAgent) ==
    [via |-> via, scheme |-> scheme, host |-> u.host, path |-> u.path,
     userAgent |-> userAgent, state |-> "pending", status |-> 0,
     outcome |-> NoOutcome, body |-> NoBody]

\* line 35: fetch(url, { headers: directHeaders, redirect: "follow" })
DirectRequest(u) == NewRequest("direct", "https", u, "Mozilla/5.0")

\* lines 43-44: https://r.jina.ai/http://<url without its scheme>
FallbackRequest(u) == NewRequest("r.jina.ai", "http", u, "ArtDetectiveWeb/1.0")

LastRequest == requests[Len(requests)]

InFlight == requests # <<>> /\ LastRequest.state # "settled"

\* the log with the latest request over
Settled(outcome, status, body) ==
    [requests EXCEPT ![Len(requests)] =
        [@ EXCEPT !.state = "settled", !.status = status, !.outcome = outcome,
                  !.body = body]]

NoChecks == <<>>
NoScore == 0 - 1

(***************************************************************************)
(* The state after construction: an empty store, a call about to start.    *)
(***************************************************************************)
\* nothing else is going on
NoResponse == 0

ServerIdle ==
    /\ calls = <<>>
    /\ placeholderCache = <<>>
    /\ placeholderEnabled = FALSE
    /\ resets = 0

\* no watchlist call has returned yet; 0 stands for a token that is absent
NoToken == 0
NoCall == [op |-> "none", listingId |-> "", undoToken |-> NoToken, state |-> "", status |-> NoResponse]
NoSession == [accessToken |-> 0, refreshToken |-> 0]

WatchIdle ==
    /\ watchlistByUser = <<>>
    /\ deletedWatchlistByUser = {}
    /\ clock = 0
    /\ clockSteps = 0
    /\ undoIssued = 0
    /\ lastCall = NoCall

AuthIdle ==
    /\ refreshToUserId = {}
    /\ refreshIssued = 0
    /\ authPending = {}
    /\ authLog = <<>>

ClientIdle ==
    /\ session = NoSession
    /\ apiCalls = <<>>
    /\ expiredAccess = {}

AccountIdle == WatchIdle /\ AuthIdle /\ ClientIdle

AsideIdle ==
    /\ inferTitle = <<>>
    /\ inferredArtist = <<>>
    /\ httpStatus = NoResponse
    /\ ServerIdle
    /\ AccountIdle

Init ==
    /\ url \in Urls
    /\ pc = "start"
    /\ requests = <<>>
    /\ timerArmed = FALSE
    /\ elapsed = 0
    /\ raw = NoBody
    /\ rawVia = "none"
    /\ result = Pending
    /\ listingsById = <<>>
    /\ bucketChecks = NoChecks
    /\ bucketScore = NoScore
    /\ AsideIdle

(***************************************************************************)
(* fetchWithTimeout: issue the request and arm the abort timer.            *)
(***************************************************************************)
fetchWithTimeout(log, request) ==
    /\ requests' = Append(log, request)
    /\ timerArmed' = TRUE
    /\ elapsed' = 0

TimerDue == timerArmed /\ elapsed * TickMs >= FETCH_TIMEOUT_MS

\* the promise of buildSnapshotFromUrl rejects with this error
Reject(error) ==
    /\ result' = Failure(error)
    /\ pc' = "done"

\* faulty variant: the catch block rethrows for every host
OnDirectFailure_NoFallback(error, status, body) ==
    /\ Reject(error)
    /\ requests' = Settled(error, status, body)
    /\ timerArmed' = FALSE
    /\ elapsed' = 0

\* lines 40-44: the catch block after a failed direct attempt
OnDirectFailure(error, status, body) ==
    IF ~isEbayUrl(url)
    THEN /\ Reject(error)
         /\ requests' = Settled(error, status, body)
         /\ timerArmed' = FALSE
         /\ elapsed' = 0
    ELSE /\ fetchWithTimeout(Settled(error, status, body), FallbackRequest(url))
         /\ pc' = "fallback_fetch"
         /\ UNCHANGED result

\* faulty variant: a failed fallback rethrows the error of the direct attempt
OnFallbackFailure_RethrowsDirect(error, status) ==
    /\ Reject(requests[1].outcome)
    /\ requests' = Settled(error, status, NoBody)
    /\ timerArmed' = FALSE
    /\ elapsed' = 0

\* lines 44-48: the fallback attempt is in no try block, its errors leave
\* fetchListingHtml
OnFallbackFailure(error, status) ==
    /\ Reject(error)
    /\ requests' = Settled(error, status, NoBody)
    /\ timerArmed' = FALSE
    /\ elapsed' = 0

\* fetchListingHtml returns the text of the latest response
ReturnText(text, via) ==
    /\ raw' = text
    /\ rawVia' = via
    /\ pc' = "analyse"
    /\ requests' = Settled(Delivered, LastRequest.status, text)
    /\ elapsed' = 0
    /\ UNCHANGED <<timerArmed, result>>

\* await fetchWithTimeout(...) resolves with a success status: the finally
\* block clears the timer, the body is still to be read
AwaitText(status, next) ==
    /\ requests' = [requests EXCEPT ![Len(requests)] =
                        [@ EXCEPT !.state = "streaming", !.status = status]]
    /\ timerArmed' = FALSE
    /\ pc' = next
    /\ UNCHANGED <<elapsed, result>>

(***************************************************************************)
(* The actions.                                                            *)
(***************************************************************************)
\* buildSnapshotFromUrl is called: fetchListingHtml issues the direct request
Start ==
    /\ pc = "start"
    /\ fetchWithTimeout(requests, DirectRequest(url))
    /\ pc' = "direct_fetch"
    /\ UNCHANGED <<url, raw, rawVia, result, listingsById, bucketChecks, bucketScore, aside>>

\* time passes while a request is outstanding; a due timer fires first
Tick ==
    /\ InFlight
    /\ elapsed < MaxTicks
    /\ ~TimerDue
    /\ elapsed' = elapsed + 1
    /\ UNCHANGED <<url, pc, requests, timerArmed, raw, rawVia, result,
                   listingsById, bucketChecks, bucketScore, aside>>

\* the timer fires: controller.abort(), the pending fetch rejects
TimerFires ==
    /\ TimerDue
    /\ \/ /\ pc = "direct_fetch"
          /\ OnDirectFailure(Timeout, 0, NoBody)
       \/ /\ pc = "fallback_fetch"
          /\ OnFallbackFailure(Timeout, 0)
    /\ UNCHANGED <<url, raw, rawVia, listingsById, bucketChecks, bucketScore, aside>>

\* the status line and headers of the direct response arrive in time
DirectHeaders ==
    /\ pc = "direct_fetch"
    /\ ~TimerDue
    /\ \E status \in Statuses :
        IF Ok(status)
        THEN AwaitText(status, "direct_text")
        ELSE OnDirectFailure(HttpStatus(status), status, NoBody)
    /\ UNCHANGED <<url, raw, rawVia, listingsById, bucketChecks, bucketScore, aside>>

\* fetch() itself rejects: no connection, reset, DNS
DirectFetchFails ==
    /\ pc = "direct_fetch"
    /\ ~TimerDue
    /\ OnDirectFailure(Network, 0, NoBody)
    /\ UNCHANGED <<url, raw, rawVia, listingsById, bucketChecks, bucketScore, aside>>

\* response.text() resolves, at any time: the timer was cleared with the headers
DirectBody ==
    /\ pc = "direct_text"
    /\ \E body \in Bodies :
        IF isLikelyBotBlock(body)
        THEN OnDirectFailure(BotBlocked, LastRequest.status, body) /\ UNCHANGED <<raw, rawVia>>
        ELSE ReturnText(body, "direct")
    /\ UNCHANGED <<url, listingsById, bucketChecks, bucketScore, aside>>

\* response.text() rejects
DirectBodyFails ==
    /\ pc = "direct_text"
    /\ OnDirectFailure(Network, LastRequest.status, NoBody)
    /\ UNCHANGED <<url, raw, rawVia, listingsById, bucketChecks, bucketScore, aside>>

\* the status line and headers of the fallback response arrive in time
FallbackHeaders ==
    /\ pc = "fallback_fetch"
    /\ ~TimerDue
    /\ \E status \in Statuses :
        IF Ok(status)
        THEN AwaitText(status, "fallback_text")
        ELSE OnFallbackFailure(HttpStatus(status), status)
    /\ UNCHANGED <<url, raw, rawVia, listingsById, bucketChecks, bucketScore, aside>>

FallbackFetchFails ==
    /\ pc = "fallback_fetch"
    /\ ~TimerDue
    /\ OnFallbackFailure(Network, 0)
    /\ UNCHANGED <<url, raw, rawVia, listingsById, bucketChecks, bucketScore, aside>>

\* fallback.text() resolves: line 48 returns the text as it is
FallbackBody ==
    /\ pc = "fallback_text"
    /\ \E body \in Bodies : ReturnText(body, "fallback")
    /\ UNCHANGED <<url, listingsById, bucketChecks, bucketScore, aside>>

\* fallback.text() rejects
FallbackBodyFails ==
    /\ pc = "fallback_text"
    /\ OnFallbackFailure(Network, LastRequest.status)
    /\ UNCHANGED <<url, raw, rawVia, listingsById, bucketChecks, bucketScore, aside>>

(***************************************************************************)
(* The extractor and scorer: buildSnapshotFromUrl after the fetch.         *)
(***************************************************************************)
\* lines 197-208: the alternatives of each keyword pattern; a pattern with
\* digits (ed\.\s?\d+, \/\d{1,4}) is given by instances of it
CoaWords == {"coa", "certificate of authenticity", "authenticity certificate"}
SignatureWords == {"signed", "signature", "hand-signed", "hand signed"}
EditionWords == {"edition", "ed. 12", "ed.12", "/250", "numbered"}
ProvenanceWords ==
    {"provenance", "acquired from", "from the collection", "previous sale", "auction", "sold at"}
ReleaseWords == {"released", "release", "drop", "year", "published"}
PriceComparableWords ==
    {"comparable", "market", "last sale", "price history", "median", "percentile"}
ReturnPolicyWords == {"return policy", "returns accepted", "return within", "no returns"}
InsuranceWords == {"shipping insurance", "insured shipping", "insured"}
BuyerProtectionWords == {"buyer protection", "money back guarantee", "guarantee"}
SellerReliabilityWords ==
    {"positive feedback", "seller rating", "top rated seller", "trusted seller"}
DocsWords == {"receipt", "invoice", "proof of purchase", "documentation"}

\* [...new Set(matches)]: the first occurrence of each entry, in order
RECURSIVE Dedupe(_)
Dedupe(s) ==
    IF s = <<>> THEN <<>>
    ELSE LET front == Dedupe(SubSeq(s, 1, Len(s) - 1))
             last == s[Len(s)]
         IN  IF \E i \in 1..Len(front) : front[i] = last THEN front ELSE Append(front, last)

\* Array.prototype.slice(0, n)
Slice(s, n) == SubSeq(s, 1, IF Len(s) < n THEN Len(s) ELSE n)

(***************************************************************************)
(* Strings.  A title is its sequence of characters.                        *)
(***************************************************************************)
LowerLetters ==
    {"a", "b", "c", "d", "e", "f", "g", "h", "i", "j", "k", "l", "m",
     "n", "o", "p", "q", "r", "s", "t", "u", "v", "w", "x", "y", "z"}

UpperLetters ==
    {"A", "B", "C", "D", "E", "F", "G", "H", "I", "J", "K", "L", "M",
     "N", "O", "P", "Q", "R", "S", "T", "U", "V", "W", "X", "Y", "Z"}

\* [A-Za-z]
IsLetter(c) == c \in LowerLetters \cup UpperLetters

\* \d
IsDigit(c) == c \in {"0", "1", "2", "3", "4", "5", "6", "7", "8", "9"}

\* \s, for the white space a title of the model can hold
IsSpace(c) == c \in {" ", "\t"}

\* \w
IsWordChar(c) == IsLetter(c) \/ IsDigit(c) \/ c = "_"

\* ["'“”], the typographic quotes apart: no title of the model holds one
IsQuote(c) == c \in {"\"", "'"}

\* [-|:]
IsSeparator(c) == c \in {"-", "|", ":"}

\* [A-Za-z .'\-]
IsNameChar(c) == IsLetter(c) \/ c \in {" ", ".", "'", "-"}

\* the class negated in /[^A-Za-z.'\-\s]+$/
IsNameTail(c) == IsLetter(c) \/ IsSpace(c) \/ c \in {".", "'", "-"}

\* the index of the first character of s that passes the test, 0 when none does
FirstWhere(s, Test(_)) ==
    IF \E i \in 1..Len(s) : Test(s[i])
    THEN CHOOSE i \in 1..Len(s) : Test(s[i]) /\ \A j \in 1..(i - 1) : ~Test(s[j])
    ELSE 0

\* the index of the last character of s that passes the test, 0 when none does
LastWhere(s, Test(_)) ==
    IF \E i \in 1..Len(s) : Test(s[i])
    THEN CHOOSE i \in 1..Len(s) : Test(s[i]) /\ \A j \in (i + 1)..Len(s) : ~Test(s[j])
    ELSE 0

NotSpace(c) == ~IsSpace(c)

\* String.prototype.trim
Trim(s) ==
    IF FirstWhere(s, NotSpace) = 0 THEN <<>>
    ELSE SubSeq(s, FirstWhere(s, NotSpace), LastWhere(s, NotSpace))

\* replace(/\s+/g, " ")
RECURSIVE CollapseSpaces(_)
CollapseSpaces(s) ==
    IF s = <<>> THEN <<>>
    ELSE LET n == Len(s)
             front == CollapseSpaces(SubSeq(s, 1, n - 1))
         IN  IF ~IsSpace(s[n]) THEN Append(front, s[n])
             ELSE IF n > 1 /\ IsSpace(s[n - 1]) THEN front
             ELSE Append(front, " ")

\* lines 125-131
sanitizeArtistCandidate(value) ==
    LET collapsed == CollapseSpaces(value)
        headless == IF FirstWhere(collapsed, IsLetter) = 0 THEN <<>>
                    ELSE SubSeq(collapsed, FirstWhere(collapsed, IsLetter), Len(collapsed))
        tailless == SubSeq(headless, 1, LastWhere(headless, IsNameTail))
    IN  Trim(tailless)

\* value.split(/\s+/).filter(Boolean).length
WordCount(value) ==
    Cardinality({i \in 1..Len(value) :
                    ~IsSpace(value[i]) /\ (i = 1 \/ IsSpace(value[i - 1]))})

\* lines 133-138
looksLikeArtistName(value) ==
    /\ value # <<>>
    /\ ~\E i \in 1..Len(value) : IsDigit(value[i])
    /\ WordCount(value) >= 2
    /\ WordCount(value) <= 5

\* where /\bby\s+([A-Za-z][A-Za-z .'\-]{1,80})/i can match at position i of the
\* title: the index of the first letter of the capture, 0 when it cannot
ByCaptureStart(title, i) ==
    IF /\ i + 1 <= Len(title)
       /\ title[i] \in {"b", "B"}
       /\ title[i + 1] \in {"y", "Y"}
       /\ (i = 1 \/ ~IsWordChar(title[i - 1]))
    THEN LET rest == SubSeq(title, i + 2, Len(title))
             k == FirstWhere(rest, NotSpace)
         IN  IF k > 1 /\ IsLetter(rest[k]) /\ k + 1 <= Len(rest) /\ IsNameChar(rest[k + 1])
             THEN i + 1 + k
             ELSE 0
    ELSE 0

\* the longest run of name characters from position i on, 81 characters at most
NameRun(title, i) ==
    LET rest == SubSeq(title, i, Len(title))
        NotNameChar(c) == ~IsNameChar(c)
        stop == FirstWhere(rest, NotNameChar)
        run == IF stop = 0 THEN rest ELSE SubSeq(rest, 1, stop - 1)
    IN  SubSeq(run, 1, IF Len(run) < 81 THEN Len(run) ELSE 81)

\* byMatch?.[1] of line 149: the capture of the leftmost match, <<>> when none
byMatch(title) ==
    IF \E i \in 1..Len(title) : ByCaptureStart(title, i) # 0
    THEN LET i == CHOOSE i \in 1..Len(title) :
                    /\ ByCaptureStart(title, i) # 0
                    /\ \A j \in 1..(i - 1) : ByCaptureStart(title, j) = 0
         IN  NameRun(title, ByCaptureStart(title, i))
    ELSE <<>>

\* separatorMatch?.[1] of line 156: /^(.+?)\s*[-|:]/, <<>> when no match
separatorMatch(title) ==
    LET tail == SubSeq(title, 2, Len(title))
        j == FirstWhere(tail, IsSeparator)
    IN  IF j = 0 THEN <<>>
        ELSE LET before == SubSeq(title, 1, j)
                 k == LastWhere(before, NotSpace)
             IN  SubSeq(title, 1, IF k = 0 THEN 1 ELSE k)

UnknownArtist == <<"U", "n", "k", "n", "o", "w", "n", " ", "a", "r", "t", "i", "s", "t">>

\* lines 140-164
inferArtistName(title) ==
    LET quoteIndex == FirstWhere(title, IsQuote)
        quotedPrefix == sanitizeArtistCandidate(SubSeq(title, 1, quoteIndex - 1))
        byArtist == sanitizeArtistCandidate(byMatch(title))
        separated == sanitizeArtistCandidate(separatorMatch(title))
        fallback == sanitizeArtistCandidate(title)
    IN  IF quoteIndex > 1 /\ looksLikeArtistName(quotedPrefix) THEN quotedPrefix
        ELSE IF byMatch(title) # <<>> /\ looksLikeArtistName(byArtist) THEN byArtist
        ELSE IF separatorMatch(title) # <<>> /\ looksLikeArtistName(separated) THEN separated
        ELSE IF looksLikeArtistName(fallback) THEN fallback
        ELSE UnknownArtist

(***************************************************************************)
(* Extraction.  A structured-data block is [kind |-> "empty"] (no text) or *)
(* a record of the JSON values of name, offers.price, offers.priceCurrency *)
(* and image that its text spells, of kind "object" (JSON.parse accepts    *)
(* the text) or "malformed" (JSON.parse throws): the patterns that scan    *)
(* the raw page see the text of both kinds.                                *)
(***************************************************************************)
JAbsent == [type |-> "absent", text |-> "", chars |-> <<>>, number |-> 0, items |-> <<>>]
JString(v) == [JAbsent EXCEPT !.type = "string", !.text = v]
JTitle(v) == [JAbsent EXCEPT !.type = "string", !.chars = v]
JNumber(n) == [JAbsent EXCEPT !.type = "number", !.number = n]
JArray(vs) == [JAbsent EXCEPT !.type = "array", !.items = vs]

NaN == 0 - 2

\* Number(s) for the price strings of the model
NumberOf(str) ==
    CASE str = "120.50" -> 12050
      [] str = "99" -> 9900
      [] str = "" -> 0
      [] OTHER -> NaN

\* what "?(\d+(?:\.\d+)?) captures at the head of a price string
LeadingDigits(str) ==
    CASE str = "120.50" -> 12050
      [] str = "99" -> 9900
      [] str = "1,200" -> 100
      [] OTHER -> NoPrice

\* the image pattern of line 62 wants one of the extensions jpg, jpeg, png, webp
HasImageExtension(u) == u \notin {"cdn/og", "cdn/ld"}

\* lines 81-90: the fields of one parsed block
BlockFields(block) ==
    [title |-> IF block.name.type = "string" THEN block.name.chars ELSE <<>>,
     price |-> IF block.price.type = "string" THEN NumberOf(block.price.text)
               ELSE IF block.price.type = "number" THEN block.price.number
               ELSE NoPrice,
     currency |-> IF block.priceCurrency.type = "string" THEN block.priceCurrency.text
                  ELSE "",
     images |-> IF block.image.type = "string" THEN <<block.image.text>>
                ELSE IF block.image.type = "array"
                THEN LET strings == SelectSeq(block.image.items, LAMBDA v : v.type = "string")
                     IN  [i \in 1..Len(strings) |-> strings[i].text]
                ELSE <<>>]

NoFields == [title |-> <<>>, price |-> NoPrice, currency |-> "", images |-> <<>>]

\* line 91: title || price || currency || images?.length
Truthy(fields) ==
    \/ fields.title # <<>>
    \/ fields.price \notin {NoPrice, NaN, 0}
    \/ fields.currency # ""
    \/ Len(fields.images) > 0

Useful(block) == block.kind = "object" /\ Truthy(BlockFields(block))

\* lines 73-99: the fields of the first block that parses and yields any
extractFromJsonLd(text) ==
    IF \E i \in 1..Len(text.ld) : Useful(text.ld[i])
    THEN BlockFields(text.ld[CHOOSE i \in 1..Len(text.ld) :
                                /\ Useful(text.ld[i])
                                /\ \A j \in 1..(i - 1) : ~Useful(text.ld[j])])
    ELSE NoFields

\* what /"price"\s*:\s*"?(\d+(?:\.\d+)?)"?/i finds in the text of one block,
\* whether the block parses or not
BlockPriceMatch(block) ==
    IF block.kind = "empty" THEN NoPrice
    ELSE IF block.price.type = "number" THEN block.price.number
    ELSE IF block.price.type = "string" THEN LeadingDigits(block.price.text)
    ELSE NoPrice

\* line 178: the first match in the page, blocks first
priceJsonMatch(text) ==
    IF \E i \in 1..Len(text.ld) : BlockPriceMatch(text.ld[i]) # NoPrice
    THEN BlockPriceMatch(text.ld[CHOOSE i \in 1..Len(text.ld) :
                                    /\ BlockPriceMatch(text.ld[i]) # NoPrice
                                    /\ \A j \in 1..(i - 1) :
                                          BlockPriceMatch(text.ld[j]) = NoPrice])
    ELSE text.jsonPrice

\* the pipe at position j opens /\|\s*eBay/i
EbaySuffixAt(t, j) ==
    /\ t[j] = "|"
    /\ LET rest == SubSeq(t, j + 1, Len(t))
           k == FirstWhere(rest, NotSpace)
       IN  /\ k # 0
           /\ k + 3 <= Len(rest)
           /\ rest[k] \in {"e", "E"}
           /\ rest[k + 1] \in {"b", "B"}
           /\ rest[k + 2] \in {"a", "A"}
           /\ rest[k + 3] \in {"y", "Y"}

\* replace(/\s*\|\s*eBay.*$/i, "")
StripEbaySuffix(t) ==
    IF \E j \in 1..Len(t) : EbaySuffixAt(t, j)
    THEN LET j == CHOOSE j \in 1..Len(t) :
                    EbaySuffixAt(t, j) /\ \A i \in 1..(j - 1) : ~EbaySuffixAt(t, i)
         IN  SubSeq(t, 1, LastWhere(SubSeq(t, 1, j - 1), NotSpace))
    ELSE t

UntitledListing ==
    <<"U", "n", "t", "i", "t", "l", "e", "d", " ", "l", "i", "s", "t", "i", "n", "g">>

\* lines 170-177
titleOf(text) ==
    LET fromTag == Trim(StripEbaySuffix(text.titleTag))
    IN  Trim(IF extractFromJsonLd(text).title # <<>> THEN extractFromJsonLd(text).title
             ELSE IF text.ogTitle # <<>> THEN text.ogTitle
             ELSE IF fromTag # <<>> THEN fromTag
             ELSE UntitledListing)

\* line 187
currencyOf(text) ==
    IF extractFromJsonLd(text).currency # "" THEN extractFromJsonLd(text).currency
    ELSE IF text.currencyMeta # "" THEN text.currencyMeta
    ELSE "USD"

NoDimensions == [w |-> "", h |-> "", d |-> "", unit |-> "Not provided"]

\* lines 52-59: the unit lower-cased, inches and inch and the double quote
\* turned into in
inferDimensions(text) ==
    IF text.dimensions = <<>> THEN NoDimensions
    ELSE [w |-> text.dimensions[1], h |-> text.dimensions[2], d |-> text.dimensions[3],
          unit |-> CASE text.dimensions[4] \in {"\"", "Inches", "inches", "inch", "IN", "in"}
                          -> "in"
                     [] text.dimensions[4] \in {"CM", "cm"} -> "cm"
                     [] text.dimensions[4] \in {"MM", "mm"} -> "mm"]

\* the image URLs of the structured-data blocks, as the scan of the raw text
\* meets them
RECURSIVE BlockUrls(_, _)
BlockUrls(ld, n) ==
    IF n = 0 THEN <<>>
    ELSE BlockUrls(ld, n - 1)
         \o (IF ld[n].kind # "empty" THEN BlockFields(ld[n]).images ELSE <<>>)

\* raw.match(...) of line 62: blocks, then meta tags, then the body
ScannedUrls(text) ==
    SelectSeq(BlockUrls(text.ld, Len(text.ld))
              \o (IF text.ogImage # "" THEN <<text.ogImage>> ELSE <<>>),
              HasImageExtension)
    \o text.images

\* lines 61-64
extractImageUrls(text) == Slice(Dedupe(ScannedUrls(text)), 8)

\* faulty variant: the three sources are concatenated and cut, not de-duplicated
imageUrlsOf_NoCrossDedupe(text) ==
    Slice(extractFromJsonLd(text).images
          \o (IF text.ogImage # "" THEN <<text.ogImage>> ELSE <<>>)
          \o extractImageUrls(text), 8)

\* lines 190-195
imageUrlsOf(text) ==
    Slice(Dedupe(extractFromJsonLd(text).images
                 \o (IF text.ogImage # "" THEN <<text.ogImage>> ELSE <<>>)
                 \o extractImageUrls(text)), 8)

\* lines 178-186
priceOf(text) ==
    IF extractFromJsonLd(text).price \notin {NoPrice, NaN} THEN extractFromJsonLd(text).price
    ELSE IF priceJsonMatch(text) # NoPrice THEN priceJsonMatch(text)
    ELSE text.price

hasPrice(text) == priceOf(text) # NoPrice

computeStatus(score) ==
    IF score >= 75 THEN "Good"
    ELSE IF score >= 50 THEN "Needs review"
    ELSE "Missing evidence"

toCheck(label, good, detailWhenGood, detailWhenMissing) ==
    [label |-> label,
     value |-> IF good THEN "Good" ELSE "Missing evidence",
     detail |-> IF good THEN detailWhenGood ELSE detailWhenMissing]

\* the reduce of computeBucketScore, in halves: 1 and 0.5 and their sums are
\* exact doubles
RECURSIVE CheckValueSum(_, _)
CheckValueSum(checks, n) ==
    IF n = 0 THEN 0
    ELSE CheckValueSum(checks, n - 1)
         + (IF checks[n].value = "Good" THEN 2
            ELSE IF checks[n].value = "Needs review" THEN 1
            ELSE 0)

\* faulty variant: Math.floor in place of Math.round
computeBucketScore_Floor(checks) ==
    DoubleMulInt(DoubleDiv(CheckValueSum(checks, Len(checks)), 2 * Len(checks)), 100)[4]
        \div Pow2(8)

\* Math.round((value / total) * 100)
computeBucketScore(checks) ==
    MathRound(DoubleMulInt(DoubleDiv(CheckValueSum(checks, Len(checks)), 2 * Len(checks)), 100))

authenticityChecks(text) ==
    << toCheck("COA presence", Matches(text, CoaWords),
               "COA language detected.", "No COA mention found."),
       toCheck("Signature evidence", Matches(text, SignatureWords),
               "Signature keywords detected.", "No signature evidence found."),
       toCheck("Edition consistency", Matches(text, EditionWords),
               "Edition/numbering clues detected.", "Edition details missing.") >>

provenanceChecks(text) ==
    << toCheck("Prior listing/sale mentions", Matches(text, ProvenanceWords),
               "Provenance or prior-sale context found.", "No provenance trail mentioned."),
       toCheck("Release context", Matches(text, ReleaseWords),
               "Release/date context appears in listing.", "Release context is missing.") >>

\* faulty variant: the percentile check is built like the other checks
priceChecks_PercentileGood(text) ==
    << [label |-> "Comparable listings/sales",
        value |-> IF hasPrice(text) THEN "Good" ELSE "Missing evidence",
        detail |-> IF hasPrice(text) THEN "Current listing includes a concrete price."
                   ELSE "No concrete listing price extracted."],
       toCheck("12-month trend band", Matches(text, PriceComparableWords),
               "Market-comparison language detected.", "No trend/comparable references found."),
       toCheck("Percentile position", hasPrice(text) /\ Matches(text, PriceComparableWords),
               "Price is available; percentile still requires stronger market feed.",
               "Not enough context to compute percentile position.") >>

\* lines 220-235
priceChecks(text) ==
    << [label |-> "Comparable listings/sales",
        value |-> IF hasPrice(text) THEN "Good" ELSE "Missing evidence",
        detail |-> IF hasPrice(text) THEN "Current listing includes a concrete price."
                   ELSE "No concrete listing price extracted."],
       toCheck("12-month trend band", Matches(text, PriceComparableWords),
               "Market-comparison language detected.", "No trend/comparable references found."),
       [label |-> "Percentile position",
        value |-> IF hasPrice(text) /\ Matches(text, PriceComparableWords)
                  THEN "Needs review" ELSE "Missing evidence",
        detail |-> IF hasPrice(text) /\ Matches(text, PriceComparableWords)
                   THEN "Price is available; percentile still requires stronger market feed."
                   ELSE "Not enough context to compute percentile position."] >>

\* faulty variant: the seller-reliability check is left out
riskChecks_NoSellerCheck(text) ==
    << toCheck("Return policy", Matches(text, ReturnPolicyWords),
               "Return policy terms detected.", "Return policy not clearly stated."),
       toCheck("Shipping insurance", Matches(text, InsuranceWords),
               "Shipping insurance language detected.", "No shipping insurance mention."),
       toCheck("Buyer protection", Matches(text, BuyerProtectionWords),
               "Buyer protection terms found.", "Buyer protection mention missing.") >>

riskChecks(text) ==
    << toCheck("Return policy", Matches(text, ReturnPolicyWords),
               "Return policy terms detected.", "Return policy not clearly stated."),
       toCheck("Shipping insurance", Matches(text, InsuranceWords),
               "Shipping insurance language detected.", "No shipping insurance mention."),
       toCheck("Buyer protection", Matches(text, BuyerProtectionWords),
               "Buyer protection terms found.", "Buyer protection mention missing."),
       toCheck("Seller reliability", Matches(text, SellerReliabilityWords),
               "Seller reliability signals detected.", "Seller reliability signal missing.") >>

visualChecks(text) ==
    << toCheck("Image quality score", Len(imageUrlsOf(text)) > 0,
               "At least one image detected.", "No listing images detected."),
       toCheck("Detail shots", Len(imageUrlsOf(text)) >= 2,
               "Multiple images suggest detail coverage.", "No detail-shot coverage detected."),
       toCheck("Docs detection", Matches(text, DocsWords) \/ Matches(text, CoaWords),
               "COA/receipt-like docs mention detected.", "No COA/receipt docs mention detected.") >>

baseBucket(key, label, weight, checks) ==
    [key |-> key, label |-> label, weight |-> weight, checks |-> checks,
     score |-> computeBucketScore(checks), status |-> "Needs review",
     explanation |-> [template |-> "", good |-> 0, of |-> 0]]

\* faulty variant: the weights of authenticity and risk are exchanged
baseBuckets_SwappedWeights(text) ==
    << baseBucket("authenticity", "Authenticity", 15, authenticityChecks(text)),
       baseBucket("provenance", "Provenance", 20, provenanceChecks(text)),
       baseBucket("price", "Price reassurance", 20, priceChecks(text)),
       baseBucket("risk", "Risk reducers", 35, riskChecks(text)),
       baseBucket("visual", "Visual proof", 10, visualChecks(text)) >>

\* lines 248-294
baseBuckets(text) ==
    << baseBucket("authenticity", "Authenticity", 35, authenticityChecks(text)),
       baseBucket("provenance", "Provenance", 20, provenanceChecks(text)),
       baseBucket("price", "Price reassurance", 20, priceChecks(text)),
       baseBucket("risk", "Risk reducers", 15, riskChecks(text)),
       baseBucket("visual", "Visual proof", 10, visualChecks(text)) >>

\* faulty variant: the bucket keeps the status it was constructed with
bucketStatus_Provisional(bucket) == bucket.status

\* the status each bucket is returned with
bucketStatus(bucket) == computeStatus(bucket.score)

\* lines 296-306: the map over baseBuckets
finishBucket(bucket) ==
    LET status == bucketStatus(bucket)
        evidenceGood == Len(SelectSeq(bucket.checks, LAMBDA c : c.value = "Good"))
    IN  [bucket EXCEPT
            !.status = status,
            !.explanation =
                [template |-> IF status = "Good" THEN "signals are solid in this bucket"
                              ELSE IF status = "Needs review"
                                   THEN "Partial evidence, verify missing items with seller"
                                   ELSE "Low evidence, high uncertainty remains",
                 good |-> evidenceGood, of |-> Len(bucket.checks)]]

bucketsOf(text) ==
    LET base == baseBuckets(text)
    IN  << finishBucket(base[1]), finishBucket(base[2]), finishBucket(base[3]),
           finishBucket(base[4]), finishBucket(base[5]) >>

\* the reduce of line 308: acc + bucket.score * (bucket.weight / 100), in doubles
RECURSIVE WeightedSum(_, _)
WeightedSum(buckets, n) ==
    IF n = 0 THEN BigZero
    ELSE DoubleAdd(WeightedSum(buckets, n - 1),
                   DoubleMulInt(DoubleDiv(buckets[n].weight, 100), buckets[n].score))

overallScore(buckets) == MathRound(WeightedSum(buckets, Len(buckets)))

\* faulty variant: the missing list keeps only the Missing evidence checks
RECURSIVE Signals_MissingEvidenceOnly(_, _, _)
Signals_MissingEvidenceOnly(buckets, n, wantGood) ==
    IF n = 0 THEN <<>>
    ELSE Signals_MissingEvidenceOnly(buckets, n - 1, wantGood)
         \o [i \in 1..Len(SelectSeq(buckets[n].checks,
                       LAMBDA c : c.value = (IF wantGood THEN "Good" ELSE "Missing evidence"))) |->
                [bucket |-> buckets[n].label,
                 detail |-> SelectSeq(buckets[n].checks,
                       LAMBDA c : c.value = (IF wantGood THEN "Good" ELSE "Missing evidence"))[i].detail]]

\* lines 311-320: flatMap over the buckets, then slice(0, 3)
RECURSIVE Signals(_, _, _)
Signals(buckets, n, wantGood) ==
    IF n = 0 THEN <<>>
    ELSE Signals(buckets, n - 1, wantGood)
         \o [i \in 1..Len(SelectSeq(buckets[n].checks, LAMBDA c : (c.value = "Good") = wantGood)) |->
                [bucket |-> buckets[n].label,
                 detail |-> SelectSeq(buckets[n].checks,
                                      LAMBDA c : (c.value = "Good") = wantGood)[i].detail]]

\* faulty variant: the weak-bucket guard is dropped
recommendedActionOf_ScoreOnly(score, buckets) ==
    IF score >= 75 THEN "Proceed"
    ELSE IF score >= 50 THEN "Ask seller for docs"
    ELSE "Wait/monitor"

\* lines 322-332
recommendedActionOf(score, buckets) ==
    LET authenticityOrRiskWeak ==
            \E i \in 1..Len(buckets) :
                /\ buckets[i].key = "authenticity" \/ buckets[i].key = "risk"
                /\ buckets[i].status = "Missing evidence"
    IN  IF score >= 75 /\ ~authenticityOrRiskWeak THEN "Proceed"
        ELSE IF score >= 50 THEN "Ask seller for docs"
        ELSE "Wait/monitor"

\* /<word>\./i on the whole URL string: the word right before a dot of the
\* host or of the path
UrlHas(u, word) ==
    \/ \E i \in 1..(Len(u.host) - 1) : LabelEndsWith(u.host[i], word)
    \/ \E i \in 1..(Len(u.path) - 1) : LabelEndsWith(u.path[i], word)

\* faulty variant: the tag is taken from the URL only while the store is empty
sourceOf_OnlyOnEmptyStore(u) ==
    IF listingsById # <<>> THEN "listing"
    ELSE IF UrlHas(u, "ebay") THEN "ebay"
    ELSE IF UrlHas(u, "stockx") THEN "stockx"
    ELSE IF UrlHas(u, "artsy") THEN "artsy"
    ELSE "listing"

\* line 336
sourceOf(u) ==
    IF UrlHas(u, "ebay") THEN "ebay"
    ELSE IF UrlHas(u, "stockx") THEN "stockx"
    ELSE IF UrlHas(u, "artsy") THEN "artsy"
    ELSE "listing"

\* randomUUID() and new Date()
ListingIds == {"lst_1", "lst_2", "lst_3"}
IdRank(id) == CASE id = "lst_1" -> 1 [] id = "lst_2" -> 2 [] OTHER -> 3
Timestamps == {"t1"}

\* lines 334-344
listingOf(u, text, id, now) ==
    [listingId |-> id, source |-> sourceOf(u), url |-> u, fetchedAt |-> now,
     currency |-> currencyOf(text), price |-> priceOf(text),
     artwork |-> [title |-> titleOf(text), dimensions |-> inferDimensions(text)],
     artist |-> [name |-> inferArtistName(titleOf(text))],
     visual |-> [imageUrls |-> imageUrlsOf(text)]]

\* lines 347-368
responseOf(listing, text) ==
    LET buckets == bucketsOf(text)
        score == overallScore(buckets)
    IN  [source |-> listing.source,
         snapshot |->
            [listingId |-> listing.listingId,
             score |-> score,
             status |-> computeStatus(score),
             recommendedAction |-> recommendedActionOf(score, buckets),
             topPositiveSignals |-> Slice(Signals(buckets, 5, TRUE), 3),
             topMissingOrSuspiciousSignals |-> Slice(Signals(buckets, 5, FALSE), 3),
             buckets |-> buckets],
         artworkOverview |->
            [imageUrls |-> listing.visual.imageUrls, artistName |-> listing.artist.name,
             title |-> listing.artwork.title, dimensions |-> listing.artwork.dimensions,
             price |-> listing.price, currency |-> listing.currency,
             medium |-> "Not provided", yearOfRelease |-> "Not provided"]]

\* faulty variant: the store keeps the latest record only
saveListing_SingleSlot(listing) ==
    listingsById' = [id \in {listing.listingId} |-> listing]

\* store.ts: listingsById.set(listing.listingId, listing)
saveListing(listing) ==
    listingsById' = [id \in DOMAIN listingsById \cup {listing.listingId} |->
                        IF id = listing.listingId THEN listing ELSE listingsById[id]]

\* the continuation of buildSnapshotFromUrl after await fetchListingHtml(url)
Analyse ==
    /\ pc = "analyse"
    /\ \E id \in ListingIds, now \in Timestamps :
        LET listing == listingOf(url, raw, id, now) IN
        /\ saveListing(listing)
        /\ result' = [kind |-> "snapshot", response |-> responseOf(listing, raw)]
    /\ pc' = "done"
    /\ UNCHANGED <<url, requests, timerArmed, elapsed, raw, rawVia, bucketChecks, bucketScore, aside>>

(***************************************************************************)
(* The snapshot route (POST /api/snapshot): the catch block turns the      *)
(* rejection of the build into a response status.  A message is modelled   *)
(* by the error that carries it; Includes is String.prototype.includes on  *)
(* the lower-cased message, for the needles the route looks for:           *)
(*   Timeout     "this operation was aborted"                              *)
(*   HttpStatus  "could not fetch listing (<status>)"                      *)
(*   BotBlocked  "listing page appears bot-protected."                     *)
(*   Network     "fetch failed", "terminated"                              *)
(***************************************************************************)
Includes(error, needle) ==
    CASE needle = "bot-protected" -> error.kind = "BotBlocked"
      [] needle = "abort" -> error.kind = "Timeout"
      [] needle = "could not fetch listing" -> error.kind = "HttpStatus"
      [] needle = "could not fetch listing (404)" ->
            error.kind = "HttpStatus" /\ error.code = 404
      [] needle = "could not fetch listing (410)" ->
            error.kind = "HttpStatus" /\ error.code = 410
      [] OTHER -> FALSE

\* faulty variant: the generic fetch failure is tested before the missing page
buildActionableSnapshotError_GenericFirst(error) ==
    IF \/ Includes(error, "bot-protected")
       \/ Includes(error, "captcha")
       \/ Includes(error, "robot check")
    THEN 503
    ELSE IF Includes(error, "could not fetch listing")
    THEN 502
    ELSE IF \/ Includes(error, "could not fetch listing (404)")
            \/ Includes(error, "could not fetch listing (410)")
    THEN 404
    ELSE IF Includes(error, "abort") \/ Includes(error, "timeout")
    THEN 504
    ELSE 500

\* route.ts lines 39-86: the status of the actionable error
buildActionableSnapshotError(error) ==
    IF \/ Includes(error, "bot-protected")
       \/ Includes(error, "captcha")
       \/ Includes(error, "robot check")
    THEN 503
    ELSE IF \/ Includes(error, "could not fetch listing (404)")
            \/ Includes(error, "could not fetch listing (410)")
    THEN 404
    ELSE IF Includes(error, "abort") \/ Includes(error, "timeout")
    THEN 504
    ELSE IF Includes(error, "could not fetch listing")
    THEN 502
    ELSE 500

\* route.ts lines 94-115: the build is over and the route answers; requestedUrl
\* is set, for the build was called with it
Respond ==
    /\ pc = "done"
    /\ httpStatus = NoResponse
    /\ httpStatus' = IF result.kind = "failure"
                     THEN buildActionableSnapshotError(result.error)
                     ELSE 200
    /\ UNCHANGED <<url, pc, requests, timerArmed, elapsed, raw, rawVia, result,
                   listingsById, bucketChecks, bucketScore, inferTitle,
                   inferredArtist, server, account>>

Next ==
    \/ Start
    \/ Tick
    \/ TimerFires
    \/ DirectHeaders
    \/ DirectFetchFails
    \/ DirectBody
    \/ DirectBodyFails
    \/ FallbackHeaders
    \/ FallbackFetchFails
    \/ FallbackBody
    \/ FallbackBodyFails
    \/ Analyse
    \/ Respond

Spec == Init /\ [][Next]_vars

(***************************************************************************)
(* The scorer on its own: buildSnapshotFromUrl from the point where the    *)
(* fetch has returned, for every listing page, and computeBucketScore for  *)
(* every sequence of two to four check values.                             *)
(***************************************************************************)
CheckValues == {"Good", "Needs review", "Missing evidence"}

CheckSequences ==
    UNION { [1..n -> {[label |-> "check", value |-> v, detail |-> ""] : v \in CheckValues}] :
            n \in 2..4 }

ScoreUrl == [host |-> <<"www", "artsy", "net">>, path |-> <<"/itm/1">>]

InitScore ==
    /\ url = ScoreUrl
    /\ timerArmed = FALSE
    /\ elapsed = 0
    /\ result = Pending
    /\ listingsById = <<>>
    /\ bucketScore = NoScore
    /\ AsideIdle
    /\ \/ /\ pc = "analyse"
          /\ raw \in ListingPages
          /\ rawVia = "direct"
          /\ requests = << [DirectRequest(url) EXCEPT
                              !.state = "settled", !.status = 200,
                              !.outcome = Delivered, !.body = raw] >>
          /\ bucketChecks = NoChecks
       \/ /\ pc = "bucket"
          /\ raw = NoBody
          /\ rawVia = "none"
          /\ requests = <<>>
          /\ bucketChecks \in CheckSequences

\* a call of computeBucketScore
ComputeBucketScore ==
    /\ pc = "bucket"
    /\ bucketScore' = computeBucketScore(bucketChecks)
    /\ pc' = "bucket_done"
    /\ UNCHANGED <<url, requests, timerArmed, elapsed, raw, rawVia, result,
                   listingsById, bucketChecks, aside>>

NextScore ==
    \/ Analyse
    \/ ComputeBucketScore

SpecScore == InitScore /\ [][NextScore]_vars

(***************************************************************************)
(* The properties.                                                         *)
(***************************************************************************)
\* the hosts of the model that belong to the ebay.* family
EbayFamily == { <<"www", "ebay", "co", "uk">> }

Failed == result.kind = "failure"
Returned == result.kind = "snapshot"

\* the attempt of request i failed
AttemptFailed(i) ==
    /\ i <= Len(requests)
    /\ requests[i].outcome \notin {NoOutcome, Delivered}

\* C1: a fallback request is issued only after the direct attempt has failed
\* and only for a host of the ebay.* family; for any other host a failed direct
\* attempt ends the call with that same failure after one request (a direct
\* timeout gives Timeout); a successful direct attempt is followed by no
\* fallback; requests never overlap and there are at most two of them.
C1_FallbackOnlyAfterEbayDirectFailure ==
    /\ Len(requests) <= 2
    /\ \A i \in 1..Len(requests) :
        requests[i].via = (IF i = 1 THEN "direct" ELSE "r.jina.ai")
    /\ Len(requests) = 2 =>
        /\ url.host \in EbayFamily
        /\ requests[1].state = "settled"
        /\ AttemptFailed(1)
    /\ (url.host \notin EbayFamily /\ AttemptFailed(1)) =>
        /\ Len(requests) = 1
        /\ pc = "done"
        /\ result = Failure(requests[1].outcome)
    /\ (requests # <<>> /\ requests[1].outcome = Delivered) => Len(requests) = 1
    /\ Cardinality({i \in 1..Len(requests) : requests[i].state # "settled"}) <= 1

\* a direct timeout for a host outside the family ended the call with Timeout
C1_Witness ==
    /\ url.host \notin EbayFamily
    /\ Len(requests) = 1
    /\ requests[1].outcome = Timeout
    /\ result = Failure(Timeout)

\* C2: for a host of the ebay.* family every failure of the direct attempt
\* is followed at once by exactly one fallback request through the proxy, and
\* an error is reported only after that fallback attempt is over.
C2_EbayFailureGetsOneFallback ==
    url.host \in EbayFamily =>
        /\ Len(requests) <= 2
        /\ AttemptFailed(1) =>
            /\ Len(requests) = 2
            /\ requests[2].via = "r.jina.ai"
            /\ requests[2].host = url.host
        /\ Failed =>
            /\ Len(requests) = 2
            /\ requests[2].state = "settled"
            /\ result.error = requests[2].outcome

\* the direct attempt timed out, the fallback is out and no error is reported yet
C2_Witness ==
    /\ url.host \in EbayFamily
    /\ requests # <<>>
    /\ requests[1].outcome = Timeout
    /\ Len(requests) = 2
    /\ requests[2].state = "pending"
    /\ result = Pending

FetcherErrorKinds == {"Timeout", "HttpStatus", "BotBlocked"}

\* the snapshot is whole: five buckets in the fixed order, 3, 2, 3, 4, 3 checks
CompleteSnapshot(response) ==
    /\ Len(response.snapshot.buckets) = 5
    /\ [i \in 1..5 |-> response.snapshot.buckets[i].key]
         = <<"authenticity", "provenance", "price", "risk", "visual">>
    /\ [i \in 1..5 |-> Len(response.snapshot.buckets[i].checks)] = <<3, 2, 3, 4, 3>>

\* the two outcomes of a call, the failures being of these kinds
TwoOutcomes(kinds) ==
    /\ pc = "done" =>
        \/ /\ Failed
           /\ result.error.kind \in kinds
           /\ listingsById = <<>>
           /\ raw = NoBody
        \/ /\ Returned
           /\ CompleteSnapshot(result.response)
           /\ DOMAIN listingsById = {result.response.snapshot.listingId}
    /\ result.kind \in {"pending", "failure", "snapshot"}
    /\ pc # "done" => result = Pending /\ listingsById = <<>>
    /\ raw # NoBody =>
        /\ ~Failed
        /\ pc \in {"analyse", "done"}
        /\ \A id \in ListingIds, now \in Timestamps :
            CompleteSnapshot(responseOf(listingOf(url, raw, id, now), raw))

\* C3 as stated: a call ends either in a failure of one of the kinds Timeout,
\* HttpStatus, BotBlocked with no snapshot and an unchanged store, or in a
\* complete snapshot; once the fetch has returned text it ends in the snapshot.
C3_FailureOfFetcherKindOrCompleteSnapshot == TwoOutcomes(FetcherErrorKinds)

\* C3, amended: the failure may also be the network client's own rejection
\* (fetch() or text() failing), which fetchListingHtml passes on as it is.
C3_FailureOrCompleteSnapshot == TwoOutcomes(FetcherErrorKinds \cup {"Network"})

\* the empty text, once returned by the fetch, ended in a complete snapshot
C3_Witness ==
    /\ pc = "done"
    /\ raw = EmptyPage
    /\ Returned
    /\ CompleteSnapshot(result.response)

\* C4: no outbound request is still outstanding (status or body not yet
\* delivered) once more than the 15-second budget has passed since its issue.
C4_EveryRequestBoundedByTimeout ==
    \A i \in 1..Len(requests) :
        requests[i].state # "settled" => elapsed * TickMs <= FETCH_TIMEOUT_MS

\* the signature of a bot interstitial, matched without regard to case
BotSignature ==
    {"robot check", "access denied", "to continue, please verify", "security measure", "captcha"}

HasBotSignature(body) == \E p \in body.phrases : \E q \in BotSignature : ToLower(p) = q

\* C5: a direct body that carries the bot-block signature is never the text
\* fetchListingHtml returns: the attempt fails with BotBlocked, which ends the
\* call for a host outside the ebay.* family and starts the fallback inside it.
C5_BotBlockedBodyNeverReturned ==
    (requests # <<>> /\ requests[1].body # NoBody /\ HasBotSignature(requests[1].body)) =>
        /\ rawVia # "direct"
        /\ requests[1].outcome = BotBlocked
        /\ IF url.host \in EbayFamily
           THEN Len(requests) = 2 /\ requests[2].via = "r.jina.ai"
           ELSE result = Failure(BotBlocked) /\ raw = NoBody

\* an interstitial in capitals was rejected for a host outside the family
C5_Witness ==
    /\ url.host \notin EbayFamily
    /\ requests # <<>>
    /\ requests[1].body # NoBody
    /\ requests[1].body.phrases = {"Robot Check"}
    /\ result = Failure(BotBlocked)

SnapshotBuckets == result.response.snapshot.buckets

SnapshotScore == result.response.snapshot.score

\* the bucket of the returned snapshot with this key
BucketOf(key) == SnapshotBuckets[CHOOSE i \in 1..5 : SnapshotBuckets[i].key = key]

\* round(n / d) over the rationals, a tie going up, for n >= 0 and d > 0
RoundRatio(n, d) == (2 * n + d) \div (2 * d)

SpecWeights ==
    [authenticity |-> 35, provenance |-> 20, price |-> 20, risk |-> 15, visual |-> 10]

\* C7: in every snapshot the overall score is round(sum of bucket.score *
\* bucket.weight / 100), the weights being 35, 20, 20, 15, 10, rounded once
\* over the exact sum, and it is an integer of 0..100.
C7_OverallScoreIsExactWeightedRound ==
    Returned =>
        /\ \A i \in 1..5 : SnapshotBuckets[i].weight = SpecWeights[SnapshotBuckets[i].key]
        /\ SnapshotScore =
             RoundRatio(SnapshotBuckets[1].score * 35 + SnapshotBuckets[2].score * 20
                        + SnapshotBuckets[3].score * 20 + SnapshotBuckets[4].score * 15
                        + SnapshotBuckets[5].score * 10, 100)
        /\ SnapshotScore \in 0..100

CountOf(checks, value) == Cardinality({i \in 1..Len(checks) : checks[i].value = value})

\* round(100 * (good + 0.5 * needs review) / total), over the rationals
SpecBucketScore(checks) ==
    RoundRatio(100 * (2 * CountOf(checks, "Good") + CountOf(checks, "Needs review")),
               2 * Len(checks))

\* C8: a bucket's score is round(100 * (Good checks + 0.5 * Needs review
\* checks) / checks), an integer of 0..100, for every sequence of check
\* values and in every bucket of every snapshot; authenticity with COA and
\* signature Good and edition Missing evidence scores 67, status Needs review.
C8_BucketScoreIsRoundedShare ==
    /\ pc = "bucket_done" =>
        /\ bucketScore = SpecBucketScore(bucketChecks)
        /\ bucketScore \in 0..100
    /\ Returned =>
        /\ \A i \in 1..5 :
            /\ SnapshotBuckets[i].score = SpecBucketScore(SnapshotBuckets[i].checks)
            /\ SnapshotBuckets[i].score \in 0..100
        /\ [i \in 1..3 |-> BucketOf("authenticity").checks[i].value]
             = <<"Good", "Good", "Missing evidence">> =>
              /\ BucketOf("authenticity").score = 67
              /\ BucketOf("authenticity").status = "Needs review"

\* a page with "Hand-Signed" and "Certificate of Authenticity" and no edition
\* wording was analysed: authenticity scores 67, Needs review
C8_Witness ==
    /\ Returned
    /\ raw.phrases = {"Hand-Signed", "Certificate of Authenticity"}
    /\ [i \in 1..3 |-> BucketOf("authenticity").checks[i].value]
         = <<"Good", "Good", "Missing evidence">>
    /\ BucketOf("authenticity").score = 67

\* the three-way threshold of the specification
Threshold(score) ==
    CASE score >= 75 -> "Good"
      [] score >= 50 /\ score < 75 -> "Needs review"
      [] score < 50 -> "Missing evidence"

\* C9: in every snapshot the overall status and each bucket's status are the
\* three-way threshold of the score (75 Good, 74 and 50 Needs review, 49
\* Missing evidence), whatever status the bucket was constructed with.
C9_StatusIsThresholdOfScore ==
    /\ computeStatus(75) = "Good"
    /\ computeStatus(74) = "Needs review"
    /\ computeStatus(50) = "Needs review"
    /\ computeStatus(49) = "Missing evidence"
    /\ Returned =>
        /\ result.response.snapshot.status = Threshold(SnapshotScore)
        /\ \A i \in 1..5 : SnapshotBuckets[i].status = Threshold(SnapshotBuckets[i].score)

\* a snapshot with a bucket at 75 (Good), one at 50 (Needs review) and one
\* below 50 (Missing evidence), none keeping the provisional status by default
C9_Witness ==
    /\ Returned
    /\ \E i \in 1..5 : SnapshotBuckets[i].score = 75 /\ SnapshotBuckets[i].status = "Good"
    /\ \E i \in 1..5 :
        SnapshotBuckets[i].score = 50 /\ SnapshotBuckets[i].status = "Needs review"
    /\ \E i \in 1..5 :
        SnapshotBuckets[i].score < 50 /\ SnapshotBuckets[i].status = "Missing evidence"

\* C10: recommendedAction is Proceed exactly when the overall score is at
\* least 75 and neither authenticity nor risk is at Missing evidence; failing
\* that, Ask seller for docs exactly when the score is at least 50; failing
\* that, Wait/monitor.  Proceed implies status Good; Wait/monitor holds exactly
\* when the score is below 50.
C10_RecommendedActionRule ==
    Returned =>
        LET action == result.response.snapshot.recommendedAction
            strong == /\ BucketOf("authenticity").status # "Missing evidence"
                      /\ BucketOf("risk").status # "Missing evidence"
        IN  /\ action \in {"Proceed", "Ask seller for docs", "Wait/monitor"}
            /\ action = "Proceed" <=> (SnapshotScore >= 75 /\ strong)
            /\ action = "Ask seller for docs" <=>
                  (SnapshotScore >= 50 /\ ~(SnapshotScore >= 75 /\ strong))
            /\ action = "Wait/monitor" <=> SnapshotScore < 50
            /\ action = "Proceed" => result.response.snapshot.status = "Good"

\* a snapshot scoring at least 75 whose risk bucket is at Missing evidence:
\* the action is Ask seller for docs
C10_Witness ==
    /\ Returned
    /\ SnapshotScore >= 75
    /\ BucketOf("risk").status = "Missing evidence"
    /\ result.response.snapshot.recommendedAction = "Ask seller for docs"

\* the checks of one bucket, each with the label of its bucket
LabelledChecks(bucket) ==
    [j \in 1..Len(bucket.checks) |->
        [bucket |-> bucket.label, detail |-> bucket.checks[j].detail,
         value |-> bucket.checks[j].value]]

\* every check of the snapshot, in bucket order and then check order
AllLabelledChecks ==
    LabelledChecks(SnapshotBuckets[1]) \o LabelledChecks(SnapshotBuckets[2])
    \o LabelledChecks(SnapshotBuckets[3]) \o LabelledChecks(SnapshotBuckets[4])
    \o LabelledChecks(SnapshotBuckets[5])

\* the entry "[BucketLabel] detail" of a labelled check
SignalOf(c) == [bucket |-> c.bucket, detail |-> c.detail]

\* the first three entries, or all of them when there are fewer
FirstThree(s) == [i \in 1..(IF Len(s) < 3 THEN Len(s) ELSE 3) |-> SignalOf(s[i])]

GoodChecks == SelectSeq(AllLabelledChecks, LAMBDA c : c.value = "Good")

NotGoodChecks ==
    SelectSeq(AllLabelledChecks, LAMBDA c : c.value \in {"Needs review", "Missing evidence"})

\* C11: topPositiveSignals is the first three (or fewer) of the Good checks in
\* bucket order and check order, topMissingOrSuspiciousSignals the first three
\* of the checks that are Needs review or Missing evidence in the same order;
\* every check is in exactly one of the two untruncated lists, every entry is
\* [BucketLabel] detail, and neither returned list is longer than three.
C11_SignalsAreFirstThreeInOrder ==
    Returned =>
        /\ result.response.snapshot.topPositiveSignals = FirstThree(GoodChecks)
        /\ result.response.snapshot.topMissingOrSuspiciousSignals = FirstThree(NotGoodChecks)
        /\ Len(GoodChecks) + Len(NotGoodChecks) = Len(AllLabelledChecks)
        /\ Len(AllLabelledChecks) = 15
        /\ Len(result.response.snapshot.topPositiveSignals) <= 3
        /\ Len(result.response.snapshot.topMissingOrSuspiciousSignals) <= 3
        /\ [i \in 1..5 |-> SnapshotBuckets[i].label]
             = <<"Authenticity", "Provenance", "Price reassurance", "Risk reducers",
                 "Visual proof">>

\* a snapshot with more than three Good checks whose first check that is not
\* Good is the Needs review percentile check of the price bucket
C11_Witness ==
    /\ Returned
    /\ Len(GoodChecks) > 3
    /\ Len(result.response.snapshot.topPositiveSignals) = 3
    /\ result.response.snapshot.topMissingOrSuspiciousSignals # <<>>
    /\ result.response.snapshot.topMissingOrSuspiciousSignals[1]
         = [bucket |-> "Price reassurance",
            detail |-> "Price is available; percentile still requires stronger market feed."]

(***************************************************************************)
(* Extraction on its own: inferArtistName for every title made of at most  *)
(* MaxTokens tokens.                                                       *)
(***************************************************************************)
MaxTokens == 4

TitleTokens ==
    { <<"a", " ">>, <<"b", "y", " ">>, <<"a">>, <<"\"">>, <<"-", " ">>, <<"1">>,
      <<" ", "\t">> }

RECURSIVE TitlesOf(_)
TitlesOf(n) ==
    IF n = 0 THEN {<<>>}
    ELSE LET shorter == TitlesOf(n - 1)
         IN  shorter \cup {t \o token : t \in shorter, token \in TitleTokens}

Titles == TitlesOf(MaxTokens)

\* the structured-data blocks of the model's documents
UntitledWork == <<"U", "n", "t", "i", "t", "l", "e", "d", " ", "W", "o", "r", "k">>

EmptyObject ==
    [kind |-> "object", name |-> JAbsent, price |-> JAbsent, priceCurrency |-> JAbsent,
     image |-> JAbsent]

ProductBlock ==
    [kind |-> "object", name |-> JTitle(UntitledWork), price |-> JString("120.50"),
     priceCurrency |-> JString("GBP"),
     image |-> JArray(<<JString("ld.jpg"), JNumber(7), JString("a.jpg")>>)]

LogoBlock == [EmptyObject EXCEPT !.image = JString("cdn/ld")]

SiteBlock == [EmptyObject EXCEPT !.name = JTitle(<<"e", "B", "a", "y">>)]

NumberPriceBlock == [EmptyObject EXCEPT !.price = JNumber(4500)]

BadPriceBlock == [EmptyObject EXCEPT !.price = JString("1,200")]

\* blocks that JSON.parse rejects: one with nothing the patterns of the page
\* look for, and a product with a trailing comma
BrokenBlock == [EmptyObject EXCEPT !.kind = "malformed"]

BrokenProductBlock ==
    [kind |-> "malformed", name |-> JTitle(UntitledWork), price |-> JString("99"),
     priceCurrency |-> JString("EUR"), image |-> JString("broken.jpg")]

Blocks ==
    { ProductBlock, LogoBlock, SiteBlock, NumberPriceBlock, BadPriceBlock, EmptyObject,
      BrokenBlock, BrokenProductBlock, [kind |-> "empty"] }

MaxBlocks == 2

BlockLists == UNION { [1..n -> Blocks] : n \in 0..MaxBlocks }

ManyImages ==
    <<"u1.jpg", "u2.jpg", "u3.jpg", "u4.jpg", "u5.jpg", "u6.jpg", "u7.jpg", "u8.jpg",
      "u9.jpg">>

\* documents that differ in their image sources, and documents that differ in
\* their title, price, currency and dimension sources
Documents ==
    { [ld |-> ld, ogImage |-> og, images |-> images, phrases |-> {}, price |-> NoPrice]
      @@ Plain :
        ld \in BlockLists, og \in {"", "a.jpg", "cdn/og"},
        images \in { <<>>, <<"a.jpg", "ld.jpg", "a.jpg">>, ManyImages,
                     <<"a.jpg">> \o ManyImages } }
    \cup
    { [ld |-> ld, ogTitle |-> og, titleTag |-> tag, price |-> prices[1],
       jsonPrice |-> prices[2], currencyMeta |-> meta[1], dimensions |-> meta[2],
       phrases |-> {}, images |-> <<>>] @@ Plain :
        ld \in BlockLists, og \in {<<>>, <<"O", "g">>},
        tag \in { <<>>,
                  <<"J", "o", " ", "D", "o", " ", "|", " ", "e", "B", "a", "y", " ", "U", "K">>,
                  <<" ", "|", " ", "E", "b", "a", "y">> },
        prices \in {NoPrice, 120} \X {NoPrice, 9900},
        meta \in { <<"", <<>>>>, <<"EUR", <<"30", "40", "", "Inches">>>> } }

InitExtract ==
    /\ url = ScoreUrl
    /\ timerArmed = FALSE
    /\ elapsed = 0
    /\ result = Pending
    /\ listingsById = <<>>
    /\ bucketChecks = NoChecks
    /\ bucketScore = NoScore
    /\ inferredArtist = <<>>
    /\ httpStatus = NoResponse
    /\ ServerIdle
    /\ AccountIdle
    /\ \/ /\ pc = "artist"
          /\ inferTitle \in Titles
          /\ raw = NoBody
          /\ rawVia = "none"
          /\ requests = <<>>
       \/ /\ pc = "analyse"
          /\ inferTitle = <<>>
          /\ raw \in Documents
          /\ rawVia = "direct"
          /\ requests = << [DirectRequest(url) EXCEPT
                              !.state = "settled", !.status = 200,
                              !.outcome = Delivered, !.body = raw] >>

\* a call of inferArtistName
InferArtistName ==
    /\ pc = "artist"
    /\ inferredArtist' = inferArtistName(inferTitle)
    /\ pc' = "artist_done"
    /\ UNCHANGED <<url, requests, timerArmed, elapsed, raw, rawVia, result,
                   listingsById, bucketChecks, bucketScore, inferTitle,
                   httpStatus, server, account>>

NextExtract ==
    \/ Analyse
    \/ InferArtistName

SpecExtract == InitExtract /\ [][NextExtract]_vars

\* C14: artist inference never yields the empty string (Unknown artist when no
\* candidate is plausible) and is idempotent: inferring again from the artist
\* it resolved gives that same artist.
C14_ArtistInferenceIdempotent ==
    pc = "artist_done" =>
        /\ inferredArtist # <<>>
        /\ inferArtistName(inferredArtist) = inferredArtist

\* the sequence without its repeats, the first occurrence of each entry kept
RECURSIVE KeepFirst(_)
KeepFirst(s) ==
    IF s = <<>> THEN <<>>
    ELSE <<Head(s)>> \o KeepFirst(SelectSeq(Tail(s), LAMBDA x : x # Head(s)))

FirstEight(s) == SubSeq(s, 1, IF Len(s) < 8 THEN Len(s) ELSE 8)

SnapshotImages == result.response.artworkOverview.imageUrls

\* the three image sources of the fetched text, in the order of the claim
ImageSources ==
    extractFromJsonLd(raw).images
    \o (IF raw.ogImage = "" THEN <<>> ELSE <<raw.ogImage>>)
    \o ScannedUrls(raw)

\* C12: the image URL list of a snapshot has at most 8 entries, no two equal,
\* and is the first 8 entries of: structured-data images, then og:image, then
\* every image URL scanned from the raw text, with repeats dropped (first
\* occurrence kept) across the three sources.
C12_ImagesAreFirstEightDistinct ==
    Returned =>
        /\ Len(SnapshotImages) <= 8
        /\ \A i, j \in 1..Len(SnapshotImages) :
              SnapshotImages[i] = SnapshotImages[j] => i = j
        /\ SnapshotImages = FirstEight(KeepFirst(ImageSources))
        /\ \A id \in DOMAIN listingsById : listingsById[id].visual.imageUrls = SnapshotImages

\* a document with structured-data images, an og:image that the scan meets
\* again and more than 8 distinct scanned URLs: the list is cut to 8
C12_Witness ==
    /\ Returned
    /\ extractFromJsonLd(raw).images # <<>>
    /\ raw.ogImage = "a.jpg"
    /\ Cardinality({ScannedUrls(raw)[i] : i \in 1..Len(ScannedUrls(raw))}) > 8
    /\ Len(ScannedUrls(raw)) > Cardinality({ScannedUrls(raw)[i] : i \in 1..Len(ScannedUrls(raw))})
    /\ Len(SnapshotImages) = 8

\* the blocks of the fetched text that parse
ParsedBlocks == SelectSeq(raw.ld, LAMBDA block : block.kind = "object")

\* the first value the parsed blocks give for a field, none when no block has it
FirstOf(values, none) ==
    IF \E i \in 1..Len(values) : values[i] # none
    THEN values[CHOOSE i \in 1..Len(values) :
                    values[i] # none /\ \A j \in 1..(i - 1) : values[j] = none]
    ELSE none

StructuredName ==
    FirstOf([i \in 1..Len(ParsedBlocks) |->
                IF ParsedBlocks[i].name.type = "string" THEN ParsedBlocks[i].name.chars
                ELSE <<>>], <<>>)

StructuredPrice ==
    FirstOf([i \in 1..Len(ParsedBlocks) |->
                LET price == BlockFields(ParsedBlocks[i]).price
                IN  IF price = NaN THEN NoPrice ELSE price], NoPrice)

StructuredCurrency ==
    FirstOf([i \in 1..Len(ParsedBlocks) |->
                IF ParsedBlocks[i].priceCurrency.type = "string"
                THEN ParsedBlocks[i].priceCurrency.text ELSE ""], "")

\* C13: the higher-priority source always wins.  Title: structured-data name,
\* else og:title, else the <title> element without its "| eBay..." suffix, else
\* the placeholder.  Price: structured-data offers.price as a number, else the
\* "price": field, else the dollar-sign pattern, else none.  Currency:
\* structured-data offers.priceCurrency, else the currency meta tag, else USD.
C13_HigherPrioritySourceWins ==
    Returned =>
        /\ result.response.artworkOverview.title =
             Trim(IF StructuredName # <<>> THEN StructuredName
                  ELSE IF raw.ogTitle # <<>> THEN raw.ogTitle
                  ELSE IF Trim(StripEbaySuffix(raw.titleTag)) # <<>>
                       THEN Trim(StripEbaySuffix(raw.titleTag))
                  ELSE UntitledListing)
        /\ result.response.artworkOverview.price =
             (IF StructuredPrice # NoPrice THEN StructuredPrice
              ELSE IF priceJsonMatch(raw) # NoPrice THEN priceJsonMatch(raw)
              ELSE raw.price)
        /\ result.response.artworkOverview.currency =
             (IF StructuredCurrency # "" THEN StructuredCurrency
              ELSE IF raw.currencyMeta # "" THEN raw.currencyMeta
              ELSE "USD")

\* the host contains the word: a table over the hosts of the model
HostContains(host, word) ==
    \/ \E i \in 1..Len(host) : host[i] = word
    \/ word = "ebay" /\ \E i \in 1..Len(host) : host[i] = "notebay"

\* the source tag of the specification, from the host alone
SourceOfHost(host) ==
    IF HostContains(host, "ebay") THEN "ebay"
    ELSE IF HostContains(host, "stockx") THEN "stockx"
    ELSE IF HostContains(host, "artsy") THEN "artsy"
    ELSE "listing"

\* C15: the source tag of the listing record and of the response is a function
\* of the URL's host only: ebay if the host contains ebay, else stockx, else
\* artsy, else listing, whatever the path and the query string.
C15_SourceTagFromHostOnly ==
    Returned =>
        /\ result.response.source = SourceOfHost(url.host)
        /\ \A id \in DOMAIN listingsById : listingsById[id].source = SourceOfHost(url.host)

\* the status the specification fixes for a failure of the core
StatusOfFailure(error) ==
    CASE error.kind = "BotBlocked" -> 503
      [] error.kind = "HttpStatus" /\ error.code \in {404, 410} -> 404
      [] error.kind = "Timeout" -> 504
      [] error.kind = "HttpStatus" /\ error.code \notin {404, 410} -> 502
      [] OTHER -> 500

\* the route has answered a call that failed
AnsweredFailure == Failed /\ httpStatus # NoResponse

\* C17: the route answers a failed build with 503 for a bot block, 404 for an
\* HttpStatus failure with code 404 or 410, 504 for a timeout, 502 for any
\* other HttpStatus failure and 500 for every other failure; the status is
\* that of the failure the core finally reported (for a host of the ebay.*
\* family, the fallback's), and the statuses of Timeout, BotBlocked and
\* HttpStatus failures never coincide.
C17_FailureKindFixesStatus ==
    AnsweredFailure =>
        /\ httpStatus = StatusOfFailure(result.error)
        /\ result.error = LastRequest.outcome
        /\ url.host \in EbayFamily => LastRequest.via = "r.jina.ai"
        /\ httpStatus = 504 <=> result.error.kind = "Timeout"
        /\ httpStatus = 503 <=> result.error.kind = "BotBlocked"
        /\ httpStatus \in {404, 502} <=> result.error.kind = "HttpStatus"

\* a page that is gone was answered 404 after the fallback of an eBay listing
C17_Witness ==
    /\ AnsweredFailure
    /\ url.host \in EbayFamily
    /\ result.error = HttpStatus(410)
    /\ httpStatus = 404

(***************************************************************************)
(* The server: several snapshot requests against one process, each going   *)
(* through resolveSnapshotWithPlaceholder, with the placeholder cache, its *)
(* reset route and the listing store shared between them.  A request's     *)
(* fetch is summarised by its end: the text it delivered or the error it   *)
(* threw.                                                                  *)
(***************************************************************************)
MaxCalls == 3
MaxResets == 1

\* the configured target listing (getSnapshotPlaceholderTargetUrls)
TargetUrl == [host |-> <<"www", "ebay", "co", "uk">>, path |-> <<"/itm/1">>]
getSnapshotPlaceholderTargetUrls == <<TargetUrl>>

\* what clients ask for: the target and a page that is no item
ServerUrls ==
    { TargetUrl,
      [host |-> <<"www", "ebay", "co", "uk">>, path |-> <<"/find/ebay", "html?q=1">>] }

ServerPages ==
    { EmptyPage,
      [phrases |-> EvidenceVocabulary, price |-> 120, images |-> <<"a.jpg", "b.png">>] @@ Plain }

ServerErrors == {Timeout}

NoItemId == ""

\* /\/itm\/(?:[^/\s]+\/)?(\d+)/i and /[?&]itm=(\d+)/i on the URL string
readEbayItemIdFromText(u) ==
    IF \E i \in 1..Len(u.path) : u.path[i] = "/itm/1" THEN "1" ELSE NoItemId

\* the same on URL.pathname and the itm search parameter
readEbayItemId(u) ==
    IF u.path[1] = "/itm/1" THEN "1" ELSE NoItemId

\* hostname.toLowerCase().replace(/^www\./, "")
normalizeHost(host) == IF host[1] = "www" THEN Tail(host) ELSE host

\* a piece of the path without the query string
StripQuery(piece) == IF piece = "html?q=1" THEN "html" ELSE piece

\* URL.pathname
pathname(u) == [i \in 1..Len(u.path) |-> StripQuery(u.path[i])]

sameTargetListing(input, target) ==
    IF readEbayItemIdFromText(input) # NoItemId /\ readEbayItemIdFromText(target) # NoItemId
    THEN readEbayItemIdFromText(input) = readEbayItemIdFromText(target)
    ELSE IF readEbayItemId(input) # NoItemId /\ readEbayItemId(target) # NoItemId
    THEN readEbayItemId(input) = readEbayItemId(target)
    ELSE /\ normalizeHost(input.host) = normalizeHost(target.host)
         /\ pathname(input) = pathname(target)

readListingCacheKey(u) ==
    IF readEbayItemIdFromText(u) # NoItemId
    THEN [kind |-> "ebay", id |-> readEbayItemIdFromText(u)]
    ELSE IF readEbayItemId(u) # NoItemId
    THEN [kind |-> "ebay", id |-> readEbayItemId(u)]
    ELSE [kind |-> "url", host |-> normalizeHost(u.host), pathname |-> pathname(u)]

\* line 117: the targets the URL matches, in the order of the configuration
MatchingTargets(u) ==
    SelectSeq(getSnapshotPlaceholderTargetUrls, LAMBDA target : sameTargetListing(u, target))

InitServer ==
    /\ url = TargetUrl
    /\ pc = "serving"
    /\ requests = <<>>
    /\ timerArmed = FALSE
    /\ elapsed = 0
    /\ raw = NoBody
    /\ rawVia = "none"
    /\ result = Pending
    /\ listingsById = <<>>
    /\ bucketChecks = NoChecks
    /\ bucketScore = NoScore
    /\ inferTitle = <<>>
    /\ inferredArtist = <<>>
    /\ httpStatus = NoResponse
    /\ calls = <<>>
    /\ placeholderCache = <<>>
    /\ placeholderEnabled \in BOOLEAN
    /\ resets = 0
    /\ AccountIdle

\* the variables of the single call, and the account features
single == <<url, pc, requests, timerArmed, elapsed, raw, rawVia, result,
            bucketChecks, bucketScore, inferTitle, inferredArtist, httpStatus, account>>

NewCall(u, mode, stage, outcome) ==
    [url |-> u, mode |-> mode, stage |-> stage, text |-> NoBody, outcome |-> outcome,
     epoch |-> resets]

\* lines 113-129: a request arrives and resolveSnapshotWithPlaceholder runs up
\* to its await, or to its return on a cache hit
Request ==
    /\ Len(calls) < MaxCalls
    /\ \E u \in ServerUrls :
        calls' = Append(calls,
            IF ~placeholderEnabled \/ MatchingTargets(u) = <<>>
            THEN NewCall(u, "live", "building", Pending)
            ELSE LET cacheKey == readListingCacheKey(Head(MatchingTargets(u))) IN
                 IF cacheKey \in DOMAIN placeholderCache
                 THEN NewCall(u, "placeholder-cache", "returned",
                              [kind |-> "snapshot",
                               response |-> placeholderCache[cacheKey].response])
                 ELSE NewCall(u, "live-seeded-placeholder", "building", Pending))
    /\ UNCHANGED <<single, listingsById, placeholderCache, placeholderEnabled, resets>>

\* randomUUID hands out an id it has not handed out before: ids are opaque, so
\* the build takes the first unused one
FreshIds ==
    { id \in ListingIds :
        /\ id \notin DOMAIN listingsById
        /\ \A other \in ListingIds \ DOMAIN listingsById : IdRank(id) <= IdRank(other) }

\* part_001 lines 166-368: the fetch of a call delivers a text and the build
\* runs to its return
BuildReturns ==
    /\ \E i \in 1..Len(calls), text \in ServerPages, id \in FreshIds, now \in Timestamps :
        LET listing == listingOf(calls[i].url, text, id, now) IN
        /\ calls[i].stage = "building"
        /\ saveListing(listing)
        /\ calls' = [calls EXCEPT ![i] =
                        [@ EXCEPT !.stage = "built", !.text = text,
                                  !.outcome = [kind |-> "snapshot",
                                               response |-> responseOf(listing, text)]]]
    /\ UNCHANGED <<single, placeholderCache, placeholderEnabled, resets>>

\* the fetch of a call throws: the build rejects, and so does the await of
\* lines 114, 119 and 129
BuildFails ==
    /\ \E i \in 1..Len(calls), error \in ServerErrors :
        /\ calls[i].stage = "building"
        /\ calls' = [calls EXCEPT ![i] =
                        [@ EXCEPT !.stage = "failed", !.outcome = Failure(error)]]
    /\ UNCHANGED <<single, listingsById, placeholderCache, placeholderEnabled, resets>>

\* lines 129-134 (and the returns of lines 114 and 119): the await of the
\* build resumes
ResolveReturns ==
    /\ \E i \in 1..Len(calls), now \in Timestamps :
        /\ calls[i].stage = "built"
        /\ calls' = [calls EXCEPT ![i].stage = "returned"]
        /\ IF calls[i].mode = "live-seeded-placeholder"
           THEN LET cacheKey == readListingCacheKey(Head(MatchingTargets(calls[i].url))) IN
                placeholderCache' =
                    [key \in DOMAIN placeholderCache \cup {cacheKey} |->
                        IF key = cacheKey
                        THEN [response |-> calls[i].outcome.response, capturedAt |-> now]
                        ELSE placeholderCache[key]]
           ELSE UNCHANGED placeholderCache
    /\ UNCHANGED <<single, listingsById, placeholderEnabled, resets>>

\* lines 103-107, called by the reset route
resetSnapshotPlaceholder ==
    /\ resets < MaxResets
    /\ placeholderCache' = <<>>
    /\ resets' = resets + 1
    /\ UNCHANGED <<single, listingsById, calls, placeholderEnabled>>

NextServer ==
    \/ Request
    \/ BuildReturns
    \/ BuildFails
    \/ ResolveReturns
    \/ resetSnapshotPlaceholder

SpecServer == InitServer /\ [][NextServer]_vars

\* the live build of call i has returned a snapshot
Built(i) ==
    /\ calls[i].mode # "placeholder-cache"
    /\ calls[i].outcome.kind = "snapshot"

\* a response without its generated listing id (no field of a response holds
\* the fetch timestamp)
WithoutListingId(response) == [response EXCEPT !.snapshot.listingId = ""]

TargetCalls == { i \in 1..Len(calls) : MatchingTargets(calls[i].url) # <<>> }

\* those of them that ran, or are running, the live build
LiveBuilds == { i \in TargetCalls : calls[i].mode # "placeholder-cache" }

\* C18: with placeholder mode on and no reset so far, the live build for the
\* target runs at most once: the first request runs it and seeds the cache,
\* every later request returns the stored response, and a failed build stores
\* nothing.
C18_TargetBuiltAtMostOnce ==
    (placeholderEnabled /\ resets = 0) =>
        /\ Cardinality(LiveBuilds) <= 1
        /\ \A i \in TargetCalls :
            calls[i].mode = "placeholder-cache" =>
                \E j \in 1..(i - 1) :
                    /\ Built(j)
                    /\ calls[i].outcome = calls[j].outcome
        /\ \A key \in DOMAIN placeholderCache :
            \E j \in TargetCalls :
                /\ Built(j)
                /\ calls[j].stage = "returned"
                /\ placeholderCache[key].response = calls[j].outcome.response

\* call i is the first request for the target after a reset returned
FirstAfterReset(i) ==
    /\ i \in TargetCalls
    /\ calls[i].epoch > 0
    /\ \A j \in TargetCalls : j < i => calls[j].epoch < calls[i].epoch

\* C19: the first request for the target after resetSnapshotPlaceholder has
\* returned runs a fresh live build (its mode is not placeholder-cache) and
\* does not return the response of a build that began before the reset, in
\* every interleaving, a reset during a live build included.
C19_ResetForcesFreshBuild ==
    \A i \in 1..Len(calls) :
        FirstAfterReset(i) =>
            /\ calls[i].mode # "placeholder-cache"
            /\ \A j \in 1..Len(calls) :
                (Built(j) /\ calls[j].epoch < calls[i].epoch)
                    => calls[i].outcome # calls[j].outcome

\* the calls whose build has returned
BuiltCalls == { i \in 1..Len(calls) : Built(i) }

\* the record is the one the build of this response stored
RecordOf(record, call) ==
    LET response == call.outcome.response IN
    /\ record.listingId = response.snapshot.listingId
    /\ record.url = call.url
    /\ record.source = response.source
    /\ record.price = response.artworkOverview.price
    /\ record.currency = response.artworkOverview.currency
    /\ record.artwork.title = response.artworkOverview.title
    /\ record.artwork.dimensions = response.artworkOverview.dimensions
    /\ record.artist.name = response.artworkOverview.artistName
    /\ record.visual.imageUrls = response.artworkOverview.imageUrls

\* C20: every build that returned has exactly one record in the store, under
\* the listingId of its response and as the build wrote it; builds have
\* distinct records, and after N builds the store (empty at first) holds N
\* records, in every interleaving.
C20_OneRecordPerBuild ==
    /\ \A i \in BuiltCalls :
        LET id == calls[i].outcome.response.snapshot.listingId IN
        /\ id \in DOMAIN listingsById
        /\ RecordOf(listingsById[id], calls[i])
        /\ \A j \in BuiltCalls :
            j # i => calls[j].outcome.response.snapshot.listingId # id
    /\ Cardinality(DOMAIN listingsById) = Cardinality(BuiltCalls)

\* three builds in flight together returned in the reverse order of their
\* requests and left three records
C20_Witness ==
    /\ Len(calls) = 3
    /\ BuiltCalls = {1, 2, 3}
    /\ calls[3].outcome.response.snapshot.listingId = "lst_1"
    /\ calls[2].outcome.response.snapshot.listingId = "lst_2"
    /\ calls[1].outcome.response.snapshot.listingId = "lst_3"
    /\ DOMAIN listingsById = {"lst_1", "lst_2", "lst_3"}

\* the check of the returned snapshot's price bucket with this label
PriceCheck(label) ==
    LET checks == BucketOf("price").checks
    IN  checks[CHOOSE j \in 1..Len(checks) : checks[j].label = label]

\* market-comparison language occurs in the text
MarketLanguage(text) ==
    \E p \in text.phrases :
        ToLower(p) \in {"comparable", "market", "last sale", "price history", "median",
                        "percentile"}

\* C21: in every snapshot the Percentile position check of the price bucket is
\* never Good: it is Needs review exactly when a numeric price was extracted
\* and the text has market-comparison language, and Missing evidence otherwise.
C21_PercentileNeverGood ==
    Returned =>
        LET value == PriceCheck("Percentile position").value
            priced == result.response.artworkOverview.price # NoPrice
        IN  /\ value # "Good"
            /\ value = "Needs review" <=> (priced /\ MarketLanguage(raw))
            /\ value = "Missing evidence" <=> ~(priced /\ MarketLanguage(raw))

\* a priced listing with market language: the check reads Needs review while
\* the two other price checks read Good
C21_Witness ==
    /\ Returned
    /\ PriceCheck("Percentile position").value = "Needs review"
    /\ PriceCheck("Comparable listings/sales").value = "Good"
    /\ PriceCheck("12-month trend band").value = "Good"

\* the text without its structured-data blocks that do not parse
WithoutMalformed(text) ==
    [text EXCEPT !.ld = SelectSeq(text.ld, LAMBDA block : block.kind # "malformed")]

\* C22: a structured-data block that fails to parse never aborts extraction
\* and never changes its result: the title, price, currency and images of the
\* snapshot are those of the same page with the malformed blocks removed.
C22_MalformedBlocksChangeNothing ==
    Returned =>
        /\ CompleteSnapshot(result.response)
        /\ result.response.artworkOverview.title = titleOf(WithoutMalformed(raw))
        /\ result.response.artworkOverview.price = priceOf(WithoutMalformed(raw))
        /\ result.response.artworkOverview.currency = currencyOf(WithoutMalformed(raw))
        /\ result.response.artworkOverview.imageUrls = imageUrlsOf(WithoutMalformed(raw))

\* C23: the text buildSnapshotFromUrl scores never carries the bot-block
\* signature, whether it came from the direct request or from the fallback
\* proxy, so no snapshot is made of a bot interstitial.
C23_NoSnapshotOfBotInterstitial ==
    /\ raw # NoBody => ~HasBotSignature(raw)
    /\ Returned => \A i \in 1..Len(requests) :
            (requests[i].outcome = Delivered) => ~HasBotSignature(requests[i].body)

\* C24: a snapshot scoring at least 75 never has its authenticity bucket at
\* Missing evidence, so the action is Proceed exactly when the score is at
\* least 75 and risk is not at Missing evidence, and a score of at least 75
\* comes with Ask seller for docs only when risk is at Missing evidence.
C24_AuthenticityGuardIsRedundant ==
    Returned =>
        LET action == result.response.snapshot.recommendedAction IN
        /\ SnapshotScore >= 75 => BucketOf("authenticity").status # "Missing evidence"
        /\ action = "Proceed" <=>
              (SnapshotScore >= 75 /\ BucketOf("risk").status # "Missing evidence")
        /\ (SnapshotScore >= 75 /\ action = "Ask seller for docs") =>
              BucketOf("risk").status = "Missing evidence"

\* the best snapshot with authenticity at Missing evidence stays below 75
C24_Witness ==
    /\ Returned
    /\ BucketOf("authenticity").status = "Missing evidence"
    /\ BucketOf("authenticity").score = 33
    /\ SnapshotScore = 73
    /\ result.response.snapshot.recommendedAction = "Ask seller for docs"

\* the text has every kind of evidence, a price and two images
FullEvidence(text) ==
    /\ \A p \in EvidenceVocabulary : p \in text.phrases
    /\ hasPrice(text)
    /\ Len(imageUrlsOf(text)) >= 2

\* C25 as stated: the score spans 0-100, the snapshot of a listing with every
\* check at its best scoring 100 with every bucket at 100.
C25_ScoreReaches100 ==
    (Returned /\ FullEvidence(raw)) =>
        /\ SnapshotScore = 100
        /\ \A i \in 1..5 : SnapshotBuckets[i].score = 100

\* C25 amended: the score spans 0-97.  The price bucket never exceeds 83, for
\* its percentile check is at best Needs review; a listing with every check
\* at its best scores 97, with 100 in the four other buckets, and a listing
\* with no evidence scores 0.
C25_ScoreSpans0To97 ==
    Returned =>
        /\ SnapshotScore \in 0..97
        /\ BucketOf("price").score <= 83
        /\ FullEvidence(raw) =>
            /\ SnapshotScore = 97
            /\ BucketOf("price").score = 83
            /\ \A i \in 1..5 :
                SnapshotBuckets[i].key # "price" => SnapshotBuckets[i].score = 100
        /\ (raw.phrases = {} /\ ~hasPrice(raw) /\ imageUrlsOf(raw) = <<>>) =>
            /\ SnapshotScore = 0
            /\ \A i \in 1..5 : SnapshotBuckets[i].score = 0

\* the snapshot of a listing with every check at its best
C25_Witness ==
    /\ Returned
    /\ FullEvidence(raw)
    /\ SnapshotScore = 97

(***************************************************************************)
(* The watchlist of the store (store.ts) and the routes that delete and    *)
(* restore an entry.  Every store function is synchronous, so one call is  *)
(* one action.  Of a watchlist item the model keeps the two fields the     *)
(* store compares, listingId and url; a URL is held as the parts that      *)
(* new URL() splits it into.  Undo tokens are numbered in the order        *)
(* randomUUID produces them.                                               *)
(***************************************************************************)
UNDO_TTL_MS == 10000

\* how often the clock advances
MaxClockSteps == 4
\* how many deletions are followed
MaxUndoTokens == 2
\* the milliseconds that can pass between two Date.now() readings of one call
Drift == 1

\* everything outside the account features
snapshots == <<url, pc, requests, timerArmed, elapsed, raw, rawVia, result, listingsById,
               bucketChecks, bucketScore, inferTitle, inferredArtist, httpStatus, server>>

SnapshotsIdle ==
    /\ url = TargetUrl
    /\ pc = "serving"
    /\ requests = <<>>
    /\ timerArmed = FALSE
    /\ elapsed = 0
    /\ raw = NoBody
    /\ rawVia = "none"
    /\ result = Pending
    /\ listingsById = <<>>
    /\ bucketChecks = NoChecks
    /\ bucketScore = NoScore
    /\ inferTitle = <<>>
    /\ inferredArtist = <<>>
    /\ httpStatus = NoResponse
    /\ ServerIdle

\* listing ids as callers pass them: two ids, and one of white space only
WatchIds == {"lst_1", "lst_2", " "}

\* String.prototype.trim on WatchIds
trim(id) == IF id = " " THEN "" ELSE id

TrackingParams ==
    {"utm_source", "utm_medium", "utm_campaign", "utm_term", "utm_content", "gclid", "fbclid"}

\* "   "
BlankUrl ==
    [blank |-> TRUE, hostname |-> "", pathname |-> "", slashes |-> 0, params |-> <<>>, hash |-> ""]

\* https://shop.example/a, https://SHOP.example/a/?utm_source=x#top,
\* https://shop.example/b?id=7, and a string of white space
WatchUrls ==
    { [blank |-> FALSE, hostname |-> "shop.example", pathname |-> "/a", slashes |-> 0,
       params |-> <<>>, hash |-> ""],
      [blank |-> FALSE, hostname |-> "SHOP.example", pathname |-> "/a", slashes |-> 1,
       params |-> <<"utm_source">>, hash |-> "top"],
      [blank |-> FALSE, hostname |-> "shop.example", pathname |-> "/b", slashes |-> 0,
       params |-> <<"id">>, hash |-> ""],
      BlankUrl }

WatchItems == [listingId : WatchIds, url : WatchUrls]

\* String.prototype.toLowerCase on the host names of WatchUrls
HostToLower(hostname) == IF hostname = "SHOP.example" THEN "shop.example" ELSE hostname

\* the key of a string that is empty once trimmed
NoUrlKey == [hostname |-> "", pathname |-> "", search |-> <<>>]

\* protocol//hostname + pathname without trailing slashes + search without the
\* tracking parameters; the hash is dropped
normalizeUrlKey(u) ==
    IF u.blank
    THEN NoUrlKey
    ELSE [hostname |-> HostToLower(u.hostname),
          pathname |-> IF u.pathname = "" THEN "/" ELSE u.pathname,
          search |-> SelectSeq(u.params, LAMBDA key : key \notin TrackingParams)]

RECURSIVE dedupeFrom(_, _, _, _)
\* the loop of dedupeWatchlist over the items left
dedupeFrom(items, seenListingIds, seenUrls, kept) ==
    IF items = <<>>
    THEN kept
    ELSE LET item == Head(items)
             listingId == trim(item.listingId)
             urlKey == normalizeUrlKey(item.url)
         IN  IF listingId = "" \/ urlKey = NoUrlKey
             THEN dedupeFrom(Tail(items), seenListingIds, seenUrls, kept)
             ELSE IF listingId \in seenListingIds \/ urlKey \in seenUrls
             THEN dedupeFrom(Tail(items), seenListingIds, seenUrls, kept)
             ELSE dedupeFrom(Tail(items), seenListingIds \cup {listingId},
                             seenUrls \cup {urlKey}, Append(kept, item))

dedupeWatchlist(items) == dedupeFrom(items, {}, {}, <<>>)

\* faulty variant: the new item is put in front of the list as it is
addWatchlist_Prepend(list, deleted, item) ==
    [watchlist |-> <<item>> \o list,
     deleted |-> { record \in deleted :
                     ~ \/ record.item.listingId = item.listingId
                       \/ normalizeUrlKey(record.item.url) = normalizeUrlKey(item.url) }]

\* the watchlist and the pending-undo records after addWatchlist(userId, item)
addWatchlist(list, deleted, item) ==
    LET incomingUrlKey == normalizeUrlKey(item.url)
        others == SelectSeq(dedupeWatchlist(list),
                            LAMBDA entry : /\ entry.listingId # item.listingId
                                           /\ normalizeUrlKey(entry.url) # incomingUrlKey)
    IN  [watchlist |-> dedupeWatchlist(<<item>> \o others),
         deleted |-> { record \in deleted :
                         ~ \/ record.item.listingId = item.listingId
                           \/ normalizeUrlKey(record.item.url) = incomingUrlKey }]

\* the pending-undo records pruneExpiredDeleted leaves when Date.now() reads now
pruneExpiredDeleted(deleted, now) ==
    { record \in deleted : ~ (record.undoExpiresAt <= now) }

\* Map.get on the pending-undo records: the records under the key (none or one)
RecordsOf(deleted, listingId) == { record \in deleted : record.key = listingId }

\* the readings a later Date.now() of the same call can give
Later(now) == {now} \cup (IF clockSteps < MaxClockSteps THEN {now + Drift} ELSE {})

\* the status of the restore route for a state of restoreWatchlistItem
restoreStatus(state) ==
    CASE state = "restored" -> 200
      [] state = "invalid_token" -> 403
      [] state = "expired" -> 410
      [] OTHER -> 404

\* the tokens a caller can present: none, or a number
PresentedTokens == 0..MaxUndoTokens

\* the steps of the clock between two calls
ClockSteps == {TickMs - Drift, TickMs}

InitWatch ==
    /\ SnapshotsIdle
    /\ AccountIdle

\* time passes between two calls
ClockAdvances ==
    /\ clockSteps < MaxClockSteps
    /\ \E step \in ClockSteps : clock' = clock + step
    /\ clockSteps' = clockSteps + 1
    /\ UNCHANGED <<watchlistByUser, deletedWatchlistByUser, undoIssued, lastCall,
                   auth, client, snapshots>>

\* a call of addWatchlist
AddWatchlist(item) ==
    LET after == addWatchlist(watchlistByUser, deletedWatchlistByUser, item) IN
    /\ watchlistByUser' = after.watchlist
    /\ deletedWatchlistByUser' = after.deleted
    /\ lastCall' = [op |-> "add", listingId |-> item.listingId, undoToken |-> NoToken,
                    state |-> "added", status |-> 201]
    /\ UNCHANGED <<clock, clockSteps, undoIssued, auth, client, snapshots>>

\* a call of listWatchlist
ListWatchlist ==
    /\ watchlistByUser' = dedupeWatchlist(watchlistByUser)
    /\ lastCall' = [op |-> "list", listingId |-> "", undoToken |-> NoToken,
                    state |-> "listed", status |-> 200]
    /\ UNCHANGED <<deletedWatchlistByUser, clock, clockSteps, undoIssued, auth, client,
                   snapshots>>

\* the DELETE route: a call of deleteWatchlistItem, answered with 200
DeleteWatchlistItem(listingId) ==
    LET pruned == pruneExpiredDeleted(deletedWatchlistByUser, clock)
        matches == SelectSeq(watchlistByUser, LAMBDA entry : entry.listingId = listingId)
        existing == RecordsOf(pruned, listingId)
    IN  IF matches # <<>>
        THEN /\ undoIssued < MaxUndoTokens
             /\ \E now \in Later(clock) :
                 /\ watchlistByUser' =
                        SelectSeq(watchlistByUser, LAMBDA entry : entry.listingId # listingId)
                 /\ deletedWatchlistByUser' =
                        (pruned \ existing) \cup
                        { [key |-> listingId, item |-> Head(matches), deletedAt |-> now,
                           undoToken |-> undoIssued + 1, undoExpiresAt |-> now + UNDO_TTL_MS] }
                 /\ undoIssued' = undoIssued + 1
                 /\ clock' = now
                 /\ clockSteps' = IF now = clock THEN clockSteps ELSE clockSteps + 1
                 /\ lastCall' = [op |-> "delete", listingId |-> listingId,
                                 undoToken |-> undoIssued + 1, state |-> "deleted",
                                 status |-> 200]
                 /\ UNCHANGED <<auth, client, snapshots>>
        ELSE /\ deletedWatchlistByUser' = pruned
             /\ lastCall' =
                    IF existing = {}
                    THEN [op |-> "delete", listingId |-> listingId, undoToken |-> NoToken,
                          state |-> "not_found", status |-> 200]
                    ELSE [op |-> "delete", listingId |-> listingId,
                          undoToken |-> (CHOOSE record \in existing : TRUE).undoToken,
                          state |-> "already_deleted", status |-> 200]
             /\ UNCHANGED <<watchlistByUser, clock, clockSteps, undoIssued, auth, client,
                            snapshots>>

\* the restore route: a call of restoreWatchlistItem and the route's answer
RestoreWatchlistItem(listingId, undoToken) ==
    LET pruned == pruneExpiredDeleted(deletedWatchlistByUser, clock)
        found == RecordsOf(pruned, listingId)
    IN  IF found = {}
        THEN /\ deletedWatchlistByUser' = pruned
             /\ lastCall' = [op |-> "restore", listingId |-> listingId,
                             undoToken |-> undoToken, state |-> "not_found",
                             status |-> restoreStatus("not_found")]
             /\ UNCHANGED <<watchlistByUser, clock, clockSteps, undoIssued, auth, client,
                            snapshots>>
        ELSE LET existing == CHOOSE record \in found : TRUE IN
             \E now \in Later(clock) :
                 LET state == IF existing.undoExpiresAt <= now THEN "expired"
                              ELSE IF undoToken # NoToken /\ existing.undoToken # undoToken
                              THEN "invalid_token"
                              ELSE "restored"
                     after == addWatchlist(watchlistByUser, pruned \ found, existing.item)
                 IN  /\ watchlistByUser' =
                            IF state = "restored" THEN after.watchlist ELSE watchlistByUser
                     /\ deletedWatchlistByUser' =
                            CASE state = "restored" -> after.deleted
                              [] state = "expired" -> pruned \ found
                              [] OTHER -> pruned
                     /\ clock' = now
                     /\ clockSteps' = IF now = clock THEN clockSteps ELSE clockSteps + 1
                     /\ lastCall' = [op |-> "restore", listingId |-> listingId,
                                     undoToken |-> undoToken, state |-> state,
                                     status |-> restoreStatus(state)]
                     /\ UNCHANGED <<undoIssued, auth, client, snapshots>>

NextWatch ==
    \/ ClockAdvances
    \/ \E item \in WatchItems : AddWatchlist(item)
    \/ ListWatchlist
    \/ \E listingId \in WatchIds : DeleteWatchlistItem(listingId)
    \/ \E listingId \in WatchIds, undoToken \in PresentedTokens :
        RestoreWatchlistItem(listingId, undoToken)

SpecWatch == InitWatch /\ [][NextWatch]_vars

(***************************************************************************)
(* C26: after any sequence of addWatchlist, deleteWatchlistItem,           *)
(* restoreWatchlistItem and listWatchlist calls the watchlist holds no two *)
(* entries with the same listingId or the same normalized URL, and no      *)
(* listing is in the watchlist and among the pending-undo records at once. *)
(***************************************************************************)
C26_WatchlistHasNoDuplicates ==
    /\ \A i, j \in 1..Len(watchlistByUser) :
        i # j => /\ watchlistByUser[i].listingId # watchlistByUser[j].listingId
                 /\ normalizeUrlKey(watchlistByUser[i].url) #
                        normalizeUrlKey(watchlistByUser[j].url)
    /\ \A i \in 1..Len(watchlistByUser), record \in deletedWatchlistByUser :
        /\ watchlistByUser[i].listingId # record.key
        /\ watchlistByUser[i].listingId # record.item.listingId
        /\ normalizeUrlKey(watchlistByUser[i].url) # normalizeUrlKey(record.item.url)

\* an entry has come back by a restore, next to another entry
C26_Witness ==
    /\ lastCall.op = "restore"
    /\ lastCall.state = "restored"
    /\ Len(watchlistByUser) = 2
    /\ \E i \in 1..2 : watchlistByUser[i].listingId = lastCall.listingId

(***************************************************************************)
(* C27: a deleted item is restored only when the caller presents the undo  *)
(* token the delete of that item issued: a restore with a different token  *)
(* answers invalid_token and leaves the watchlist and the pending-undo     *)
(* record as they were, and a restore with no token does not restore the   *)
(* item either.                                                            *)
(***************************************************************************)
\* what a restore of a pending record with a token other than its own does
RestoreWithout(record, undoToken) ==
    /\ RestoreWatchlistItem(record.key, undoToken)
    /\ undoToken # record.undoToken

\* the record's undo window is over when the call is answered
Lapsed == lastCall'.state \in {"expired", "not_found"}

C27_RestoreNeedsIssuedToken ==
    [][\A record \in deletedWatchlistByUser, undoToken \in PresentedTokens :
        RestoreWithout(record, undoToken) =>
            /\ lastCall'.state # "restored"
            /\ watchlistByUser' = watchlistByUser
            /\ ~Lapsed => record \in deletedWatchlistByUser'
            /\ (~Lapsed /\ undoToken # NoToken) => lastCall'.state = "invalid_token"]_vars

(***************************************************************************)
(* C28: a restoreWatchlistItem call made after the undo window of a        *)
(* deleted item has elapsed never puts the item back and answers expired   *)
(* (HTTP 410); not_found (HTTP 404) is answered only for a listing with no *)
(* deletion on record.                                                     *)
(***************************************************************************)
\* a restore of a record whose window is over when the call begins
LateRestore(record, undoToken) ==
    /\ RestoreWatchlistItem(record.key, undoToken)
    /\ record.undoExpiresAt <= clock

C28_LateRestoreReportsExpired ==
    [][/\ \A record \in deletedWatchlistByUser, undoToken \in PresentedTokens :
            LateRestore(record, undoToken) =>
                /\ watchlistByUser' = watchlistByUser
                /\ lastCall'.state = "expired"
                /\ lastCall'.status = 410
       /\ \A listingId \in WatchIds, undoToken \in PresentedTokens :
            (RestoreWatchlistItem(listingId, undoToken) /\ lastCall'.status = 404) =>
                RecordsOf(deletedWatchlistByUser, listingId) = {}]_vars

(***************************************************************************)
(* The auth routes (login, refresh, logout) over the store's table of      *)
(* refresh tokens.  Each handler awaits the request body and then runs to  *)
(* its answer without another await: a request is received, and handled in *)
(* a later step, in any order.  Refresh tokens are numbered in the order   *)
(* issueRefreshToken produces them; a client can present only a token that *)
(* has been issued, or none.                                               *)
(***************************************************************************)
\* how many refresh tokens are issued
MaxRefreshTokens == 3
\* how many auth requests are followed
MaxAuthRequests == 4

Users == {"usr_1", "usr_2"}
NoUser == ""

\* Map.set on refreshToUserId
storeRefresh(table, refreshToken, userId) ==
    { entry \in table : entry.refreshToken # refreshToken } \cup
    { [refreshToken |-> refreshToken, userId |-> userId] }

\* Map.get on refreshToUserId
getUserIdByRefresh(table, refreshToken) ==
    IF \E entry \in table : entry.refreshToken = refreshToken
    THEN (CHOOSE entry \in table : entry.refreshToken = refreshToken).userId
    ELSE NoUser

\* faulty variant: the redeemed token stays in the table
revokeRefresh_Keep(table, refreshToken) == table

\* Map.delete on refreshToUserId
revokeRefresh(table, refreshToken) ==
    { entry \in table : entry.refreshToken # refreshToken }

\* the next value of issueRefreshToken
issueRefreshToken == refreshIssued + 1

AuthRequests ==
    [route : {"login"}, userId : Users, refreshToken : {NoToken}] \cup
    [route : {"refresh", "logout"}, userId : {NoUser}, refreshToken : 0..refreshIssued]

InitAuth ==
    /\ SnapshotsIdle
    /\ AccountIdle

\* a request reaches one of the three routes
Receive ==
    LET id == Len(authLog) + Cardinality(authPending) + 1 IN
    /\ id <= MaxAuthRequests
    /\ \E request \in AuthRequests :
        authPending' = authPending \cup {[id |-> id] @@ request}
    /\ UNCHANGED <<refreshToUserId, refreshIssued, authLog, watch, client, snapshots>>

Answer(request, status, userId, nextRefresh) ==
    [route |-> request.route, refreshToken |-> request.refreshToken, status |-> status,
     userId |-> userId, nextRefresh |-> nextRefresh]

\* the login route: ensureUser, a fresh token pair, storeRefresh
Login ==
    \E request \in authPending :
        /\ request.route = "login"
        /\ refreshIssued < MaxRefreshTokens
        /\ refreshToUserId' = storeRefresh(refreshToUserId, issueRefreshToken, request.userId)
        /\ refreshIssued' = refreshIssued + 1
        /\ authPending' = authPending \ {request}
        /\ authLog' = Append(authLog, Answer(request, 201, request.userId, issueRefreshToken))
        /\ UNCHANGED <<watch, client, snapshots>>

\* the refresh route
Refresh ==
    \E request \in authPending :
        LET userId == getUserIdByRefresh(refreshToUserId, request.refreshToken) IN
        /\ request.route = "refresh"
        /\ authPending' = authPending \ {request}
        /\ IF request.refreshToken = NoToken
           THEN /\ authLog' = Append(authLog, Answer(request, 400, NoUser, NoToken))
                /\ UNCHANGED <<refreshToUserId, refreshIssued>>
           ELSE IF userId = NoUser
           THEN /\ authLog' = Append(authLog, Answer(request, 401, NoUser, NoToken))
                /\ UNCHANGED <<refreshToUserId, refreshIssued>>
           ELSE /\ refreshIssued < MaxRefreshTokens
                /\ refreshToUserId' =
                       storeRefresh(revokeRefresh(refreshToUserId, request.refreshToken),
                                    issueRefreshToken, userId)
                /\ refreshIssued' = refreshIssued + 1
                /\ authLog' = Append(authLog, Answer(request, 200, userId, issueRefreshToken))
        /\ UNCHANGED <<watch, client, snapshots>>

\* the logout route
Logout ==
    \E request \in authPending :
        /\ request.route = "logout"
        /\ authPending' = authPending \ {request}
        /\ refreshToUserId' = IF request.refreshToken # NoToken
                              THEN revokeRefresh(refreshToUserId, request.refreshToken)
                              ELSE refreshToUserId
        /\ authLog' = Append(authLog, Answer(request, 200, NoUser, NoToken))
        /\ UNCHANGED <<refreshIssued, watch, client, snapshots>>

NextAuth ==
    \/ Receive
    \/ Login
    \/ Refresh
    \/ Logout

SpecAuth == InitAuth /\ [][NextAuth]_vars

(***************************************************************************)
(* C29: a refresh token is redeemed at most once: after a refresh that     *)
(* succeeded with token T, or a logout with T, every later refresh with T  *)
(* is answered 401, whatever the order in which the requests are handled;  *)
(* and the replacement token of a successful refresh maps to the user T    *)
(* mapped to.                                                              *)
(***************************************************************************)
\* the i-th answer retired its token
Retires(i) ==
    /\ authLog[i].refreshToken # NoToken
    /\ \/ authLog[i].route = "refresh" /\ authLog[i].status = 200
       \/ authLog[i].route = "logout"

\* the user a token was stored for, by a login or a refresh
StoredFor(refreshToken) ==
    { authLog[i].userId : i \in { k \in 1..Len(authLog) :
                                    authLog[k].nextRefresh = refreshToken } }

C29_RefreshTokenRedeemedOnce ==
    /\ \A i, j \in 1..Len(authLog) :
        (i < j /\ Retires(i) /\ authLog[j].route = "refresh"
               /\ authLog[j].refreshToken = authLog[i].refreshToken)
            => authLog[j].status = 401
    /\ \A i \in 1..Len(authLog) :
        (authLog[i].route = "refresh" /\ authLog[i].status = 200)
            => /\ StoredFor(authLog[i].refreshToken) = {authLog[i].userId}
               /\ getUserIdByRefresh(refreshToUserId, authLog[i].nextRefresh)
                      \in {authLog[i].userId, NoUser}

\* a token was redeemed, presented again and refused, and its replacement
\* was redeemed in turn
C29_Witness ==
    \E i, j, k \in 1..Len(authLog) :
        /\ i < j
        /\ authLog[i].route = "refresh" /\ authLog[i].status = 200
        /\ authLog[j].route = "refresh" /\ authLog[j].status = 401
        /\ authLog[j].refreshToken = authLog[i].refreshToken
        /\ authLog[k].route = "refresh" /\ authLog[k].status = 200
        /\ authLog[k].refreshToken = authLog[i].nextRefresh

(***************************************************************************)
(* The client's apiRequest (api.ts) against the server's refresh route.    *)
(* Two calls run in one browser tab over the same localStorage session;    *)
(* one action is one turn of the event loop of the browser or of the       *)
(* server.  A token pair is numbered by the refresh token in it; of the    *)
(* session the model keeps the two tokens.  The network delivers every     *)
(* request and every response.                                             *)
(***************************************************************************)
\* how many apiRequest calls run
MaxApiCalls == 2

ApiCallIds == 1..MaxApiCalls

\* the session of the first login
FirstSession == [accessToken |-> 1, refreshToken |-> 1]

IdleCall ==
    [pc |-> "idle", session |-> NoSession, first |-> NoResponse, refreshes |-> 0,
     refreshStatus |-> NoResponse, refreshed |-> NoSession, retries |-> 0,
     status |-> NoResponse, cleared |-> FALSE]

\* saveSession
saveSession(accessToken, refreshToken) ==
    [accessToken |-> accessToken, refreshToken |-> refreshToken]

\* faulty variant: the session is left as it is
clearSession_Keep(stored) == stored

\* clearSession
clearSession(stored) == NoSession

\* getAuthUser on the request of a call: 401 without a bearer token or with an
\* expired one
statusFor(accessToken) ==
    IF accessToken = NoToken \/ accessToken \in expiredAccess THEN 401 ELSE 200

InitClient ==
    /\ SnapshotsIdle
    /\ WatchIdle
    /\ session \in {NoSession, FirstSession}
    /\ apiCalls = [c \in ApiCallIds |-> IdleCall]
    /\ expiredAccess \in SUBSET {FirstSession.accessToken}
    /\ refreshToUserId \in { {}, storeRefresh({}, FirstSession.refreshToken, "usr_1") }
    /\ refreshIssued = 1
    /\ authPending = {}
    /\ authLog = <<>>

\* api.ts lines 15-24: the call reads the session and sends its request
Begin(c) ==
    /\ apiCalls[c].pc = "idle"
    /\ apiCalls' = [apiCalls EXCEPT ![c].pc = "fetching", ![c].session = session]
    /\ UNCHANGED <<session, expiredAccess, auth, watch, snapshots>>

\* api.ts lines 24-28 and 42-49: the response arrives; on a 401 with a refresh
\* token at hand the refresh request is sent
FirstResponse(c) ==
    LET status == statusFor(apiCalls[c].session.accessToken) IN
    /\ apiCalls[c].pc = "fetching"
    /\ apiCalls' =
           IF status = 401 /\ apiCalls[c].session.refreshToken # NoToken
           THEN [apiCalls EXCEPT ![c].pc = "refreshing", ![c].first = status,
                                 ![c].refreshes = @ + 1]
           ELSE [apiCalls EXCEPT ![c].pc = "returned", ![c].first = status,
                                 ![c].status = status]
    /\ UNCHANGED <<session, expiredAccess, auth, watch, snapshots>>

\* the server's refresh route handles the refresh request of the call
RefreshHandled(c) ==
    LET refreshToken == apiCalls[c].session.refreshToken
        userId == getUserIdByRefresh(refreshToUserId, refreshToken)
        request == [route |-> "refresh", refreshToken |-> refreshToken]
    IN  /\ apiCalls[c].pc = "refreshing"
        /\ IF userId = NoUser
           THEN /\ apiCalls' = [apiCalls EXCEPT ![c].pc = "refused", ![c].refreshStatus = 401]
                /\ authLog' = Append(authLog, Answer(request, 401, NoUser, NoToken))
                /\ UNCHANGED <<refreshToUserId, refreshIssued>>
           ELSE /\ refreshIssued < MaxRefreshTokens
                /\ refreshToUserId' =
                       storeRefresh(revokeRefresh(refreshToUserId, refreshToken),
                                    issueRefreshToken, userId)
                /\ refreshIssued' = refreshIssued + 1
                /\ apiCalls' = [apiCalls EXCEPT
                                  ![c].pc = "refreshed", ![c].refreshStatus = 200,
                                  ![c].refreshed =
                                      saveSession(issueRefreshToken, issueRefreshToken)]
                /\ authLog' = Append(authLog, Answer(request, 200, userId, issueRefreshToken))
        /\ UNCHANGED <<session, expiredAccess, authPending, watch, snapshots>>

\* api.ts lines 28-35: the refreshed pair arrives, is saved, and the request
\* is sent again
RefreshSaved(c) ==
    /\ apiCalls[c].pc = "refreshed"
    /\ session' = saveSession(apiCalls[c].refreshed.accessToken,
                              apiCalls[c].refreshed.refreshToken)
    /\ apiCalls' = [apiCalls EXCEPT ![c].pc = "retrying", ![c].retries = @ + 1]
    /\ UNCHANGED <<expiredAccess, auth, watch, snapshots>>

\* api.ts lines 9 and 36-39: the refresh was refused; the session is cleared
\* and the call throws
RefreshRefused(c) ==
    /\ apiCalls[c].pc = "refused"
    /\ session' = clearSession(session)
    /\ apiCalls' = [apiCalls EXCEPT ![c].pc = "thrown", ![c].cleared = TRUE]
    /\ UNCHANGED <<expiredAccess, auth, watch, snapshots>>

\* api.ts lines 35 and 42-49: the response to the second request arrives
RetryResponse(c) ==
    /\ apiCalls[c].pc = "retrying"
    /\ apiCalls' = [apiCalls EXCEPT ![c].pc = "returned",
                                    ![c].status = statusFor(apiCalls[c].refreshed.accessToken)]
    /\ UNCHANGED <<session, expiredAccess, auth, watch, snapshots>>

\* auth.ts line 23: an access token in use passes its expiry
AccessExpires ==
    /\ \E accessToken \in (1..refreshIssued) \ expiredAccess :
        expiredAccess' = expiredAccess \cup {accessToken}
    /\ UNCHANGED <<session, apiCalls, auth, watch, snapshots>>

NextClient ==
    \/ \E c \in ApiCallIds : Begin(c)
    \/ \E c \in ApiCallIds : FirstResponse(c)
    \/ \E c \in ApiCallIds : RefreshHandled(c)
    \/ \E c \in ApiCallIds : RefreshSaved(c)
    \/ \E c \in ApiCallIds : RefreshRefused(c)
    \/ \E c \in ApiCallIds : RetryResponse(c)
    \/ AccessExpires

SpecClient == InitClient /\ [][NextClient]_vars

(***************************************************************************)
(* C30: a 401 triggers at most one refresh and at most one retry per call; *)
(* when two calls run concurrently with the same session and both receive  *)
(* 401, the session stored once both have finished is the token pair the   *)
(* successful refresh issued: a session saved by one call's refresh is     *)
(* never cleared by the other call, and the session is cleared only if no  *)
(* refresh succeeded.                                                      *)
(***************************************************************************)
Finished(c) == apiCalls[c].pc \in {"returned", "thrown"}

\* the calls whose refresh the server accepted
Refreshers == { c \in ApiCallIds : apiCalls[c].refreshStatus = 200 }

\* both calls began with the same session, received 401, and are over
BothRefused ==
    /\ \A c \in ApiCallIds : Finished(c) /\ apiCalls[c].first = 401
    /\ \A c, d \in ApiCallIds : apiCalls[c].session = apiCalls[d].session

C30_OneRefreshOneRetry ==
    \A c \in ApiCallIds : apiCalls[c].refreshes <= 1 /\ apiCalls[c].retries <= 1

C30_SessionSurvivesConcurrentRefresh ==
    /\ C30_OneRefreshOneRetry
    /\ BothRefused =>
        /\ \A c \in Refreshers : session = apiCalls[c].refreshed
        /\ session = NoSession => Refreshers = {}

====
